---- MODULE Spec2Model ----
(***************************************************************************)
(* Model of the Comet discovery ETL pipeline (src/etl_pipeline.py):        *)
(* the PostgreSQL store operations of DatabaseManager, the context-first   *)
(* filter, the growth computation and the run() orchestration of           *)
(* CometDiscoveryEngine (Discovery, then Roll Call).                       *)
(*                                                                         *)
(* Two specifications share the variables:                                 *)
(*   StoreSpec  the DatabaseManager operations called directly, with the   *)
(*              arguments the engine passes (Discovery: the creator and    *)
(*              its snapshot under the item's trend; Roll Call: a snapshot *)
(*              without trend; snapshots are dated today);                 *)
(*   Spec       CometDiscoveryEngine.run(), run after run, on one          *)
(*              connection with PostgreSQL's transaction semantics.        *)
(***************************************************************************)
EXTENDS Integers, Sequences, FiniteSets, TLC

VARIABLES
    creators,             \* table creators, as the connection sees it
    creator_stats,        \* table creator_stats, as the connection sees it
    daily_trends,         \* table daily_trends, as the connection sees it
    committed,            \* the three tables as of the last COMMIT
    txAborted,            \* PostgreSQL: the transaction is in the failed state
    today,                \* date.today() / CURRENT_DATE, a day number
    pc,                   \* position of run()
    runNo,                \* number of runs started
    discovered_creators,  \* CometDiscoveryEngine.discovered_creators
    filter_stats,         \* CometDiscoveryEngine.filter_stats
    trending_keywords,    \* run(): the selected trends, in rank order
    trendIdx,             \* run(): index of the trend being processed
    page,                 \* process_trend: value of the loop variable page
    itemsLeft,            \* process_trend: items of the fetched page still to process
    has_more,             \* process_trend: has_more of the fetched page
    roster,               \* roll_call_update: the fetched roster
    rosterIdx,            \* roll_call_update: index of the next roster entry
    rollCall,             \* roll_call_update: updated_count, failed_count
    db_manager_conn,      \* DatabaseManager.conn, the connection connect() made last
    connections,          \* the connections made, each with its uncommitted writes
    pool_committed,       \* worker pool: the creator writes committed to the store
    workers,              \* worker pool: position and local variables of each thread
    futures,              \* run(): the tasks submitted to the pool, their results
    total_discovered,     \* run(): total_discovered
    semaphore,            \* ContextFirstFilter._image_download_semaphore: free permits
    downloads,            \* layer3_face_presence: position of each caller
    processed_cache,      \* avatar_cache._processed_cache
    face_detection_cache, \* ContextFirstFilter.face_detection_cache, by cover URL
    hist                  \* history of the calls made (not program state)

vars == << creators, creator_stats, daily_trends, committed, txAborted, today,
           pc, runNo, discovered_creators, filter_stats, trending_keywords,
           trendIdx, page, itemsLeft, has_more, roster, rosterIdx, rollCall,
           db_manager_conn, connections, pool_committed, workers, futures,
           total_discovered, semaphore, downloads, processed_cache,
           face_detection_cache, hist >>

poolVars == << db_manager_conn, connections, pool_committed, workers, futures,
               total_discovered, semaphore, downloads, processed_cache,
               face_detection_cache >>

dbVars == << creators, creator_stats, daily_trends, committed, txAborted >>

runVars == << pc, runNo, discovered_creators, filter_stats, trending_keywords,
              trendIdx, page, itemsLeft, has_more, roster, rosterIdx, rollCall >>

(***************************************************************************)
(* Bounds of the model.                                                    *)
(***************************************************************************)
MaxDay == 2            \* days 1..MaxDay
MaxRuns == 2           \* runs of the engine in one behaviour
MaxItemsPerPage == 2   \* items in one page of search results
MaxPagesModel == 2     \* pages fetched per trend in a behaviour (max_pages caps it too)
MaxStoreCalls == 3     \* StoreSpec: calls of the store operations
MaxItems == 2          \* items the search API returns in one behaviour, all runs
MaxGap == 3            \* GrowthSpec: days of earlier snapshots before today
MaxWrites == 2         \* GrowthSpec: snapshot writes made today
MaxSelections == 2     \* TrendSpec: runs that select and store trends
MaxPoolItems == 2      \* PoolSpec: items the search API returns for one trend
MaxCallers == 3        \* DownloadSpec: threads calling layer3_face_presence
MaxDownloadCalls == 2  \* DownloadSpec: calls of layer3_face_presence per thread
MaxAvatarCalls == 2    \* AvatarSpec: calls of cache_avatar and cache_avatars_batch
MaxBatch == 2          \* AvatarSpec: creators in one batch
MaxSearchCalls == 7    \* PagingSpec: search_videos calls the model lets one trend make
MaxPageItems == 2      \* PagingSpec: items in one page of search results

NULL == "NULL"         \* SQL NULL / Python None

(***************************************************************************)
(* Text helpers: Python str methods on TLC strings.                        *)
(***************************************************************************)
RECURSIVE lower(_)
LowerChar(c) ==
    CASE c = "A" -> "a" [] c = "B" -> "b" [] c = "C" -> "c" [] c = "D" -> "d"
      [] c = "E" -> "e" [] c = "F" -> "f" [] c = "G" -> "g" [] c = "H" -> "h"
      [] c = "I" -> "i" [] c = "J" -> "j" [] c = "K" -> "k" [] c = "L" -> "l"
      [] c = "M" -> "m" [] c = "N" -> "n" [] c = "O" -> "o" [] c = "P" -> "p"
      [] c = "Q" -> "q" [] c = "R" -> "r" [] c = "S" -> "s" [] c = "T" -> "t"
      [] c = "U" -> "u" [] c = "V" -> "v" [] c = "W" -> "w" [] c = "X" -> "x"
      [] c = "Y" -> "y" [] c = "Z" -> "z" [] OTHER -> c

\* str.lower()
lower(s) ==
    IF Len(s) = 0 THEN ""
    ELSE LowerChar(SubSeq(s, 1, 1)) \o lower(SubSeq(s, 2, Len(s)))

\* sub in s
Contains(sub, s) ==
    \E i \in 1..(Len(s) - Len(sub) + 1) : SubSeq(s, i, i + Len(sub) - 1) = sub

\* s.startswith(prefix)
startswith(s, prefix) ==
    /\ Len(prefix) <= Len(s)
    /\ SubSeq(s, 1, Len(prefix)) = prefix

\* The whitespace characters str.strip() removes, as far as inputs hold them.
Whitespace == { " ", "\t", "\n", "\r" }

RECURSIVE lstrip(_)
\* leading whitespace removed
lstrip(s) ==
    IF Len(s) > 0 /\ SubSeq(s, 1, 1) \in Whitespace
    THEN lstrip(SubSeq(s, 2, Len(s))) ELSE s

RECURSIVE rstrip(_)
\* trailing whitespace removed
rstrip(s) ==
    IF Len(s) > 0 /\ SubSeq(s, Len(s), Len(s)) \in Whitespace
    THEN rstrip(SubSeq(s, 1, Len(s) - 1)) ELSE s

\* str.strip()
strip(s) == rstrip(lstrip(s))

(***************************************************************************)
(* DatabaseManager: the SQL statements as operators on the tables.         *)
(***************************************************************************)

\* The rows of a table with the given key.
CreatorRows(crs, user_id) == { r \in crs : r.user_id = user_id }
StatsRows(stats, user_id, recorded_date) ==
    { r \in stats : r.user_id = user_id /\ r.recorded_date = recorded_date }

\* A plausible bug: the DO UPDATE clause also assigns the provenance columns.
upsert_creator_overwriting(crs, creator_data, trend_keyword, breakout_video_id) ==
    LET row == [ user_id |-> creator_data.user_id,
                 handle |-> creator_data.handle,
                 nickname |-> creator_data.nickname,
                 avatar_url |-> creator_data.avatar_url,
                 signature |-> creator_data.signature,
                 last_updated_at |-> creator_data.last_updated_at,
                 discovered_via_trend |-> trend_keyword,
                 breakout_video_id |-> breakout_video_id ]
    IN  (crs \ CreatorRows(crs, row.user_id)) \cup {row}

\* INSERT INTO creators ... ON CONFLICT (user_id) DO UPDATE SET handle, nickname,
\* avatar_url, signature, last_updated_at (provenance columns not assigned).
upsert_creator(crs, creator_data, trend_keyword, breakout_video_id) ==
    LET row == [ user_id |-> creator_data.user_id,
                 handle |-> creator_data.handle,
                 nickname |-> creator_data.nickname,
                 avatar_url |-> creator_data.avatar_url,
                 signature |-> creator_data.signature,
                 last_updated_at |-> creator_data.last_updated_at,
                 discovered_via_trend |-> trend_keyword,
                 breakout_video_id |-> breakout_video_id ]
    IN  IF CreatorRows(crs, row.user_id) = {}
        THEN crs \cup {row}
        ELSE { IF r.user_id = row.user_id
               THEN [ r EXCEPT !.handle = row.handle,
                               !.nickname = row.nickname,
                               !.avatar_url = row.avatar_url,
                               !.signature = row.signature,
                               !.last_updated_at = row.last_updated_at ]
               ELSE r : r \in crs }

\* A plausible bug: ORDER BY recorded_date without DESC, the oldest earlier row.
get_previous_stats_oldest(stats, user_id, target_date) ==
    LET before == { r \in stats : r.user_id = user_id /\ r.recorded_date < target_date }
    IN  { r \in before : \A q \in before : q.recorded_date >= r.recorded_date }

\* A plausible bug: recorded_date <= %s, the row of the given date included.
get_previous_stats_inclusive(stats, user_id, target_date) ==
    LET before == { r \in stats : r.user_id = user_id /\ r.recorded_date <= target_date }
    IN  { r \in before : \A q \in before : q.recorded_date <= r.recorded_date }

\* SELECT ... FROM creator_stats WHERE user_id = %s AND recorded_date < %s
\* ORDER BY recorded_date DESC LIMIT 1; the empty set is None.
get_previous_stats(stats, user_id, target_date) ==
    LET before == { r \in stats : r.user_id = user_id /\ r.recorded_date < target_date }
    IN  { r \in before : \A q \in before : q.recorded_date <= r.recorded_date }

\* A plausible bug: the fallback of COALESCE is dropped.
COALESCE_first(a, b) == a

\* COALESCE(a, b)
COALESCE(a, b) == IF a # NULL THEN a ELSE b

\* (SELECT discovered_via_trend FROM creators WHERE user_id = ...): NULL without a row.
SelectDiscoveredViaTrend(crs, user_id) ==
    IF CreatorRows(crs, user_id) = {} THEN NULL
    ELSE (CHOOSE r \in CreatorRows(crs, user_id) : TRUE).discovered_via_trend

\* A plausible bug: a plain INSERT, without the ON CONFLICT clause's update.
insert_creator_stats_plain(stats, crs, stats_data) ==
    stats \cup { [ stats_data EXCEPT !.source_trend =
                     COALESCE(stats_data.source_trend,
                              SelectDiscoveredViaTrend(crs, stats_data.user_id)) ] }

\* INSERT INTO creator_stats ... ON CONFLICT (user_id, recorded_date) DO UPDATE.
\* EXCLUDED is the row proposed for insertion: its source_trend is the value of
\* the COALESCE in the VALUES list.
insert_creator_stats(stats, crs, stats_data) ==
    LET EXCLUDED == [ stats_data EXCEPT !.source_trend =
                        COALESCE(stats_data.source_trend,
                                 SelectDiscoveredViaTrend(crs, stats_data.user_id)) ]
        conflict == StatsRows(stats, EXCLUDED.user_id, EXCLUDED.recorded_date)
    IN  IF conflict = {}
        THEN stats \cup {EXCLUDED}
        ELSE { IF r \in conflict
               THEN [ r EXCEPT !.follower_count = EXCLUDED.follower_count,
                               !.heart_count = EXCLUDED.heart_count,
                               !.video_count = EXCLUDED.video_count,
                               !.daily_growth_followers = EXCLUDED.daily_growth_followers,
                               !.daily_growth_percent = EXCLUDED.daily_growth_percent,
                               !.source_trend = COALESCE(EXCLUDED.source_trend, r.source_trend) ]
               ELSE r : r \in stats }

\* A plausible bug: ON CONFLICT DO NOTHING, the stored rank is kept.
insert_daily_trend_do_nothing(trends, trend_keyword, rank, current_date) ==
    LET conflict == { r \in trends : r.trend_keyword = trend_keyword
                                     /\ r.discovered_at = current_date }
    IN  IF conflict = {}
        THEN trends \cup { [ trend_keyword |-> trend_keyword,
                             discovered_at |-> current_date, rank |-> rank ] }
        ELSE trends

\* INSERT INTO daily_trends (trend_keyword, CURRENT_DATE, rank) ON CONFLICT
\* (trend_keyword, discovered_at) DO UPDATE SET rank, for one (keyword, rank).
insert_daily_trend(trends, trend_keyword, rank, current_date) ==
    LET conflict == { r \in trends : r.trend_keyword = trend_keyword
                                     /\ r.discovered_at = current_date }
    IN  IF conflict = {}
        THEN trends \cup { [ trend_keyword |-> trend_keyword,
                             discovered_at |-> current_date, rank |-> rank ] }
        ELSE { IF r \in conflict THEN [ r EXCEPT !.rank = rank ] ELSE r : r \in trends }

RECURSIVE insert_daily_trends_batch(_, _, _)
\* cursor.executemany over trends_with_ranks, a sequence of <<keyword, rank>>.
insert_daily_trends_batch(trends, trends_with_ranks, current_date) ==
    IF trends_with_ranks = << >> THEN trends
    ELSE insert_daily_trends_batch(
             insert_daily_trend(trends, Head(trends_with_ranks)[1],
                                Head(trends_with_ranks)[2], current_date),
             Tail(trends_with_ranks), current_date)

(***************************************************************************)
(* Values read from API responses: a number, a missing/None value, or a    *)
(* non-numeric value.                                                      *)
(***************************************************************************)
Num(n) == [ k |-> "int", n |-> n ]
NoValue == [ k |-> "none", n |-> 0 ]
NonNumeric == [ k |-> "str", n |-> 0 ]

\* Python truthiness of such a value.
Truthy(raw) == raw.k = "str" \/ (raw.k = "int" /\ raw.n # 0)

\* a or b
OrElse(a, b) == IF Truthy(a) THEN a ELSE b

\* int(raw) if raw else 0, with ValueError/TypeError giving 0
IntOrZero(raw) == IF raw.k = "int" THEN raw.n ELSE 0

(***************************************************************************)
(* Config                                                                  *)
(***************************************************************************)
MIN_FOLLOWERS == 10000
MAX_FOLLOWERS == 100000
MIN_VIDEO_VIEWS == 50000
FETCH_PROFILE_IN_DISCOVERY == TRUE
ENABLE_PARALLEL_PROCESSING == FALSE
ENABLE_FACE_DETECTION == FALSE

(***************************************************************************)
(* ContextFirstFilter                                                      *)
(***************************************************************************)
PLATFORM_KEYWORDS ==
    << "twitch", "youtube", "kick", "discord", "streaming", "streamer",
       "ttv", "yt", "patreon", "onlyfans", "twitter", "instagram",
       "fanpage", "fan page", "archive", "clips", "highlights", "moments",
       "daily", "compilation", "best of" >>

REPOST_PRONOUNS == << "bro", "he", "she", "they" >>

\* The first element of the sequence kws found in text, as a set (empty: none).
FirstMatch(kws, text) ==
    { kws[i] : i \in { j \in 1..Len(kws) :
                         /\ Contains(kws[j], text)
                         /\ \A h \in 1..(j - 1) : ~Contains(kws[h], text) } }

\* layer1_platform_check: << passed, keyword found or "" >>
layer1_platform_check(author) ==
    LET combined_text == lower(author.nickname) \o " " \o lower(author.unique_id)
                         \o " " \o lower(author.signature)
        hit == FirstMatch(PLATFORM_KEYWORDS, combined_text)
    IN  IF hit # {} THEN << FALSE, CHOOSE k \in hit : TRUE >> ELSE << TRUE, "" >>

\* A plausible bug: the pronoun is looked for without the space after it.
layer2_pronoun_check_no_space(caption) ==
    IF caption = NULL \/ caption = "" THEN << TRUE, "" >>
    ELSE LET caption_lower == lower(strip(caption))
             hit == { REPOST_PRONOUNS[i] : i \in { j \in 1..Len(REPOST_PRONOUNS) :
                        /\ startswith(caption_lower, REPOST_PRONOUNS[j])
                        /\ \A h \in 1..(j - 1) :
                              ~startswith(caption_lower, REPOST_PRONOUNS[h]) } }
         IN  IF hit # {} THEN << FALSE, CHOOSE k \in hit : TRUE >> ELSE << TRUE, "" >>

\* layer2_pronoun_check: << passed, pronoun found or "" >>; `not caption` holds
\* of None and of the empty string.
layer2_pronoun_check(caption) ==
    IF caption = NULL \/ caption = "" THEN << TRUE, "" >>
    ELSE LET caption_lower == lower(strip(caption))
             hit == { REPOST_PRONOUNS[i] : i \in { j \in 1..Len(REPOST_PRONOUNS) :
                        /\ startswith(caption_lower, REPOST_PRONOUNS[j] \o " ")
                        /\ \A h \in 1..(j - 1) :
                              ~startswith(caption_lower, REPOST_PRONOUNS[h] \o " ") } }
         IN  IF hit # {} THEN << FALSE, CHOOSE k \in hit : TRUE >> ELSE << TRUE, "" >>

\* layer3_face_presence with face detection disabled in Config: always passes.
layer3_face_presence(cover_url) ==
    IF ~ENABLE_FACE_DETECTION THEN << TRUE, "" >> ELSE << TRUE, "" >>

\* A plausible bug: the caption is checked before the account.
filter_creator_caption_first(author, caption, cover_url) ==
    LET l1 == layer1_platform_check(author)
        l2 == layer2_pronoun_check(caption)
        l3 == layer3_face_presence(cover_url)
    IN  IF ~l2[1] THEN [ passed |-> FALSE, layer |-> 2, reason |-> l2[2],
                         evaluated |-> << 2 >> ]
        ELSE IF ~l1[1] THEN [ passed |-> FALSE, layer |-> 1, reason |-> l1[2],
                              evaluated |-> << 2, 1 >> ]
        ELSE IF ~l3[1] THEN [ passed |-> FALSE, layer |-> 3, reason |-> l3[2],
                              evaluated |-> << 2, 1, 3 >> ]
        ELSE [ passed |-> TRUE, layer |-> 0, reason |-> "",
               evaluated |-> << 2, 1, 3 >> ]

\* filter_creator: [passed, layer, reason, evaluated], layer 0 when all layers
\* passed; evaluated lists the layers whose check was called, in call order.
filter_creator(author, caption, cover_url) ==
    LET l1 == layer1_platform_check(author)
        l2 == layer2_pronoun_check(caption)
        l3 == layer3_face_presence(cover_url)
    IN  IF ~l1[1] THEN [ passed |-> FALSE, layer |-> 1, reason |-> l1[2],
                         evaluated |-> << 1 >> ]
        ELSE IF ~l2[1] THEN [ passed |-> FALSE, layer |-> 2, reason |-> l2[2],
                              evaluated |-> << 1, 2 >> ]
        ELSE IF ~l3[1] THEN [ passed |-> FALSE, layer |-> 3, reason |-> l3[2],
                              evaluated |-> << 1, 2, 3 >> ]
        ELSE [ passed |-> TRUE, layer |-> 0, reason |-> "",
               evaluated |-> << 1, 2, 3 >> ]

(***************************************************************************)
(* CometDiscoveryEngine: the pure helpers.                                 *)
(***************************************************************************)

\* A plausible bug: the thresholds are inclusive.
is_comet_creator_inclusive(author_stats, video_stats) ==
    /\ author_stats.follower_count.k = "int"
    /\ video_stats.play_count.k = "int"
    /\ MIN_FOLLOWERS <= author_stats.follower_count.n
    /\ author_stats.follower_count.n <= MAX_FOLLOWERS
    /\ video_stats.play_count.n >= MIN_VIDEO_VIEWS

\* is_comet_creator: int() of a missing key's default 0, of None or of a
\* non-numeric value does not pass (the except clause returns False).
is_comet_creator(author_stats, video_stats) ==
    /\ author_stats.follower_count.k = "int"
    /\ video_stats.play_count.k = "int"
    /\ MIN_FOLLOWERS < author_stats.follower_count.n
    /\ author_stats.follower_count.n < MAX_FOLLOWERS
    /\ video_stats.play_count.n > MIN_VIDEO_VIEWS

\* extract_creator_data; last_updated_at is datetime.now(), kept at day resolution.
extract_creator_data(author, now) ==
    [ user_id |-> IF author.sec_uid # "" THEN author.sec_uid ELSE author.uid,
      handle |-> author.unique_id,
      nickname |-> author.nickname,
      avatar_url |-> author.avatar_thumb,
      signature |-> author.signature,
      last_updated_at |-> now ]

\* A plausible bug: integer division that rounds toward minus infinity (//).
TruncDiv_floor(a, b) == a \div b

\* int(x) for x = a / b with b > 0: truncation toward zero.
TruncDiv(a, b) == IF a >= 0 THEN a \div b ELSE -((-a) \div b)

\* a / b with b > 0, rounded to the nearest integer, ties to even
\* (Decimal.quantize under the default context's ROUND_HALF_EVEN).
RoundHalfEven(a, b) ==
    LET q == a \div b
        r == a - q * b
    IN  IF 2 * r < b THEN q
        ELSE IF 2 * r > b THEN q + 1
        ELSE IF q % 2 = 0 THEN q ELSE q + 1

\* The inputs <<daily_growth, days_diff, previous_followers>> of the model on which
\* the exact value of the percentage lies halfway between two hundredths, by
\* the side of the tie on which the IEEE-754 double (avg_daily_growth /
\* previous_followers) * 100 falls; on every other tie of the model the double
\* is the tie itself, and off a tie the double rounds as the exact value does.
FloatAboveTie ==
    { << -91, 4, 1000 >>, << 1, 5, 800 >>, << 7, 4, 1000 >>, << 109, 1, 800 >>,
      << 109, 5, 800 >>, << 193, 5, 800 >>, << 700, 4, 20000 >> }
FloatBelowTie ==
    { << -199, 4, 1000 >>, << -7, 4, 1000 >>, << 115, 1, 800 >>,
      << 207, 1, 800 >>, << 207, 5, 800 >> }

\* Decimal((avg_daily_growth / previous_followers) * 100).quantize(Decimal('0.01'))
\* for avg_daily_growth = daily_growth / days, in hundredths of a percent: the
\* nearest hundredth of the double, ties of the double to even.
quantize(daily_growth, days, previous_followers) ==
    LET a == daily_growth * 10000
        b == days * previous_followers
        q == a \div b
        key == << daily_growth, days, previous_followers >>
    IN  IF 2 * (a - q * b) # b THEN RoundHalfEven(a, b)
        ELSE IF key \in FloatAboveTie THEN q + 1
        ELSE IF key \in FloatBelowTie THEN q
        ELSE RoundHalfEven(a, b)

\* A plausible bug: the gap in days is not taken into account.
days_diff_always_one(date_today, previous_date) == 1

\* A plausible bug: the gap counts both end dates.
days_diff_both_ends(date_today, previous_date) ==
    (date_today - previous_date) + 1

\* days_diff = (today - previous_date).days, and 1 if that is 0.
days_diff(date_today, previous_date) ==
    IF date_today - previous_date = 0 THEN 1 ELSE date_today - previous_date

\* The divisor of avg_daily_growth: days_diff if it is positive, else none (1).
growth_divisor(date_today, previous_date) ==
    IF days_diff(date_today, previous_date) > 0
    THEN days_diff(date_today, previous_date) ELSE 1

\* A plausible bug: growth from a baseline of zero followers counts as 100%.
growth_percent_full_from_zero(daily_growth, days, previous_followers) ==
    IF previous_followers > 0
    THEN quantize(daily_growth, days, previous_followers)
    ELSE 10000

\* growth_percent, in hundredths of a percent: 0.00 when the previous snapshot
\* has no followers.
growth_percent(daily_growth, days, previous_followers) ==
    IF previous_followers > 0
    THEN quantize(daily_growth, days, previous_followers)
    ELSE 0

\* extract_stats_data; daily_growth_percent is kept in hundredths of a percent.
extract_stats_data(user_id, author, stats, source_trend, date_today) ==
    LET current_follower_count ==
            IntOrZero(OrElse(author.follower_count, author.mplatform_followers_count))
        current_heart_count == IntOrZero(author.total_favorited)
        current_video_count == IntOrZero(author.aweme_count)
        previous_stats == get_previous_stats(stats, user_id, date_today)
        prev == CHOOSE r \in previous_stats : TRUE
        daily_growth == current_follower_count - prev.follower_count
        days == growth_divisor(date_today, prev.recorded_date)
    IN  [ user_id |-> user_id,
          recorded_date |-> date_today,
          follower_count |-> current_follower_count,
          heart_count |-> current_heart_count,
          video_count |-> current_video_count,
          daily_growth_followers |->
              IF previous_stats = {} THEN 0 ELSE TruncDiv(daily_growth, days),
          daily_growth_percent |->
              IF previous_stats = {} THEN 0
              ELSE growth_percent(daily_growth, days, prev.follower_count),
          source_trend |-> source_trend ]

(***************************************************************************)
(* Inputs: the author objects, profiles, trends and videos of the model.   *)
(***************************************************************************)
AuthorAmy ==
    [ sec_uid |-> "u1", uid |-> "1", unique_id |-> "amy", nickname |-> "Amy",
      signature |-> "dancer", avatar_thumb |-> "a1",
      follower_count |-> Num(20000), mplatform_followers_count |-> NoValue,
      total_favorited |-> Num(500), aweme_count |-> Num(7) ]

\* The same account after a change of handle and bio.
AuthorAmyRenamed ==
    [ AuthorAmy EXCEPT !.unique_id = "amy.b", !.signature = "dance and art",
                       !.follower_count = Num(20700) ]

\* An account without sec_uid: uid is its user id.
AuthorBen ==
    [ sec_uid |-> "", uid |-> "u2", unique_id |-> "Ben", nickname |-> "Ben",
      signature |-> "cook", avatar_thumb |-> "",
      follower_count |-> Num(30000), mplatform_followers_count |-> NoValue,
      total_favorited |-> NoValue, aweme_count |-> Num(3) ]

\* The account of AuthorBen with a bio that names another platform.
AuthorBenTwitch == [ AuthorBen EXCEPT !.signature = "My Twitch is ben" ]

\* The account of AuthorBen under a handle of the username blacklist.
AuthorBenClip == [ AuthorBen EXCEPT !.unique_id = "BenClip" ]

\* An author object without sec_uid and uid.
AuthorNoId == [ AuthorBen EXCEPT !.uid = "", !.unique_id = "nobody" ]

Users == { "u1", "u2" }
Trends == { "tA", "tB" }
Days == 1..MaxDay

\* One item of search_item_list: aweme_info with author, statistics, video cover,
\* desc and aweme_id. cover_url is "" when neither cover nor dynamic_cover has a URL.
Item(author, desc, cover_url, play_count, aweme_id) ==
    [ has_aweme_info |-> TRUE, has_author |-> TRUE, has_statistics |-> TRUE,
      author |-> author, desc |-> desc, cover_url |-> cover_url,
      statistics |-> [ play_count |-> play_count ], aweme_id |-> aweme_id ]

ItemAmy == Item(AuthorAmy, "my take", "c1", Num(60000), "v1")
ItemAmyLater == Item(AuthorAmyRenamed, "", "c2", Num(70000), "v2")
ItemBen == Item(AuthorBen, "Sheesh what a day", "c3", Num(60000), "v3")
ItemAmyRepost == Item(AuthorAmy, " He really thought this was cool", "c4", Num(60000), "v4")
ItemBenTwitch == Item(AuthorBenTwitch, "my take", "c5", Num(60000), "v5")
ItemBenNoCover == Item(AuthorBen, "my take", "", Num(60000), "v6")
ItemBenFewViews == Item(AuthorBen, "my take", "c7", Num(50000), "v7")
ItemBenClip == Item(AuthorBenClip, "my take", "c8", Num(60000), "v8")
ItemNoId == Item(AuthorNoId, "my take", "c9", Num(60000), "v9")
ItemBenMinFollowers ==
    Item([ AuthorBen EXCEPT !.follower_count = Num(MIN_FOLLOWERS) ],
         "my take", "c10", Num(60000), "v10")
ItemBenMaxFollowers ==
    Item([ AuthorBen EXCEPT !.follower_count = Num(MAX_FOLLOWERS) ],
         "my take", "c11", Num(60000), "v11")
ItemBenNonNumeric ==
    Item([ AuthorBen EXCEPT !.follower_count = NonNumeric ],
         "my take", "c12", Num(60000), "v12")
ItemNoAwemeInfo == [ ItemBen EXCEPT !.has_aweme_info = FALSE ]
ItemNoStatistics == [ ItemBen EXCEPT !.has_statistics = FALSE ]

\* The items that pass every check of process_video_item.
SavableItems == { ItemAmy, ItemAmyLater, ItemBen }

\* The items a page of search results may hold.
Items == { ItemAmy, ItemBen } \cup { ItemAmyRepost, ItemBenTwitch, ItemBenNoCover,
                             ItemBenFewViews, ItemBenClip, ItemNoId,
                             ItemNoAwemeInfo, ItemNoStatistics,
                             ItemBenMinFollowers, ItemBenMaxFollowers,
                             ItemBenNonNumeric }

\* The user objects handler_user_profile returns (data.user).
Profiles ==
    { [ follower_count |-> Num(20700), mplatform_followers_count |-> NoValue,
        total_favorited |-> Num(900), aweme_count |-> Num(8) ] }

(***************************************************************************)
(* Initial state. The store starts empty; the engine is not running.       *)
(***************************************************************************)
EmptyTables == [ creators |-> {}, creator_stats |-> {}, daily_trends |-> {} ]

ZeroStats ==
    [ total_processed |-> 0, rejected_layer1 |-> 0, rejected_layer2 |-> 0,
      rejected_layer3 |-> 0, passed_filters |-> 0, rejected_comet_criteria |-> 0,
      saved_to_db |-> 0 ]

\* process_trend before its loop: discovered_count, and the search_videos
\* calls made, the items fetched and the items processed so far.
NoPaging ==
    [ discovered_count |-> 0, calls |-> 0, fetched |-> 0, processed |-> 0,
      saved |-> 0, returned |-> {} ]

\* No external API has been called yet.
NoApiCalls == [ unslept |-> {}, back_to_back |-> {} ]

RECURSIVE AfterApiEvents(_, _)
\* The log of API calls after a sequence of events, each the name of the API
\* called ("search" for search_videos, "profile" for fetch_user_profile) or
\* "sleep" for time.sleep.
AfterApiEvents(log, events) ==
    IF events = << >> THEN log
    ELSE AfterApiEvents(
             IF Head(events) = "sleep" THEN [ log EXCEPT !.unslept = {} ]
             ELSE [ unslept |-> log.unslept \cup { Head(events) },
                    back_to_back |-> log.back_to_back
                                     \cup (log.unslept \cap { Head(events) }) ],
             Tail(events))

\* The history of the calls made; a set with at most one element stands for an
\* optional value.
NoHistory ==
    [ calls |-> 0,                              \* StoreSpec: store calls made
      fetched |-> 0,          \* items the search API has returned, over all runs
      firstUpsert |-> [ u \in Users |-> {} ],   \* the first upsert_creator call per user
      lastUpsert |-> [ u \in Users |-> {} ],    \* the latest upsert_creator call per user
      firstSnap |-> [ k \in Users \X Days |-> {} ], \* first snapshot upsert per (user, date)
      lastSnap |-> [ k \in Users \X Days |-> {} ],  \* latest snapshot upsert per (user, date)
      snapCall |-> {},        \* the latest snapshot upsert, with the row it met
      phases |-> << >>,       \* the phases the current run has entered, in order
      event |-> "none",       \* what the last step of the run did
      user |-> "",            \* the user id the last step was about
      snapWrites |-> [ u \in Users |-> 0 ],  \* snapshot upserts executed in this run
      filterEvals |-> [ u \in Users |-> 0 ], \* filter_creator calls in this run
      itemsSeen |-> [ u \in Users |-> 0 ],   \* items with author, statistics and cover
      startCreators |-> {},   \* the user ids committed when the run started
      day |-> 0,              \* the date of the current run
      rollSkipped |-> {},     \* roster creators Roll Call skipped as discovered
      rollAttempted |-> {},   \* roster creators whose profile Roll Call asked for
      selection |-> {},       \* TrendSpec: the latest selection of trends, with the
                              \* provider's answer and daily_trends before and after
      connected |-> FALSE,    \* this run: connect() has returned a connection
      apiCalled |-> FALSE,    \* this run: an external API has been called
      filterOutcomes |-> {},  \* this run: what the filtering step of Discovery gave,
                              \* by display name, handle, bio and caption
      storedItems |-> {},     \* this run: the items whose creator Discovery wrote
      avatarCall |-> {},      \* AvatarSpec: the latest cache_avatar call, its result
      avatarResults |-> {},   \* AvatarSpec: arguments and result of every call
      avatarBatch |-> {},     \* AvatarSpec: the latest cache_avatars_batch call
      paging |-> NoPaging,    \* PagingSpec: process_trend's counters and what it did
      apiLog |-> NoApiCalls,  \* this run: the external APIs called since the last
                              \* sleep, and those called twice without one between
      rollFetched |-> {},     \* roster creators whose profile was fetched and whose
                              \* own snapshot upsert met no database error
      scriptRun |-> {},       \* ScriptSpec: the clean-up script in progress, its cutoff
                              \* and the committed tables when it connected
      scriptDone |-> {},      \* ScriptSpec: the latest clean-up script that committed
      cleaned |-> {},         \* the latest run of clean_old_data.py: cutoff, tables
                              \* before and after, number of creators it reports
      growthCall |-> {},      \* GrowthSpec: the latest snapshot write, with the
                              \* store before and after it and the call before it
      filterInput |-> {},     \* FilterSpec: the account and caption to be filtered
      filterCall |-> {} ]     \* FilterSpec: the filter_creator call made, its result

\* ThreadPoolExecutor(max_workers=2): the threads of the worker pool.
max_workers == 2
Workers == 1..max_workers

\* Semaphore(2): the permits of ContextFirstFilter._image_download_semaphore.
SemaphorePermits == 2

\* The threads that call layer3_face_presence; more than the permits, so that
\* the limiter, not the number of threads, is what bounds the downloads.
Callers == 1..MaxCallers

\* A thread of the pool that runs no task.
IdleWorker ==
    [ pc |-> "idle", task |-> 0, conn |-> 0, left |-> 0, user |-> "",
      discovered_count |-> 0 ]

\* A thread outside layer3_face_presence.
IdleCaller ==
    [ pc |-> "idle", attempt |-> 0, calls |-> 0, waited |-> FALSE, last |-> "none",
      cover_url |-> "", retry_delay |-> 0, gets |-> 0, slept |-> << >>,
      results |-> << >> ]

\* The cover URL layer3_face_presence is called with: the threads of a run meet
\* the same video, and with it the same cover, under several trends.
CoverUrls == { "c1" }

\* DatabaseManager.__init__ (conn = None, written 0), an unused pool, the class
\* attribute _image_download_semaphore with all its permits, and the empty
\* module-level set _processed_cache of avatar_cache.
PoolIdle ==
    /\ db_manager_conn = 0
    /\ connections = << >>
    /\ pool_committed = {}
    /\ workers = [ w \in Workers |-> IdleWorker ]
    /\ futures = << >>
    /\ total_discovered = 0
    /\ semaphore = SemaphorePermits
    /\ downloads = [ c \in Callers |-> IdleCaller ]
    /\ processed_cache = {}
    /\ face_detection_cache = [ cover_url \in CoverUrls |-> "none" ]

Init ==
    /\ creators = {}
    /\ creator_stats = {}
    /\ daily_trends = {}
    /\ committed = EmptyTables
    /\ txAborted = FALSE
    /\ today = 1
    /\ pc = "idle"
    /\ runNo = 0
    /\ discovered_creators = {}
    /\ filter_stats = ZeroStats
    /\ trending_keywords = << >>
    /\ trendIdx = 0
    /\ page = 0
    /\ itemsLeft = 0
    /\ has_more = FALSE
    /\ roster = << >>
    /\ rosterIdx = 0
    /\ rollCall = [ updated_count |-> 0, failed_count |-> 0 ]
    /\ PoolIdle
    /\ hist = NoHistory

(***************************************************************************)
(* StoreSpec: the store operations called directly, each call committed.   *)
(***************************************************************************)
Tables == [ creators |-> creators, creator_stats |-> creator_stats,
            daily_trends |-> daily_trends ]

\* The call history after an upsert_creator call and after a snapshot upsert.
LogUpsert(h, creator_data, trend_keyword, breakout_video_id) ==
    LET call == [ creator_data |-> creator_data, trend_keyword |-> trend_keyword,
                  breakout_video_id |-> breakout_video_id ]
        u == creator_data.user_id
    IN  [ h EXCEPT !.firstUpsert[u] = IF @ = {} THEN {call} ELSE @,
                   !.lastUpsert[u] = {call} ]
LogSnapshot(h, stats, crs, stats_data) ==
    LET k == << stats_data.user_id, stats_data.recorded_date >>
    IN  [ h EXCEPT !.firstSnap[k] = IF @ = {} THEN {stats_data} ELSE @,
                   !.lastSnap[k] = {stats_data},
                   !.snapCall = { [ stats_data |-> stats_data,
                                    before |-> StatsRows(stats, k[1], k[2]),
                                    discovered_via_trend |->
                                        SelectDiscoveredViaTrend(crs, k[1]) ] } ]

\* process_video_item's storage step without failure: upsert_creator with the
\* trend and the video of the item, then the snapshot with the same trend, its
\* counters read from the fetched profile or from the search result's author.
StoreSaveItem ==
    \E item \in SavableItems, source_trend \in Trends :
      \E stats_author \in Profiles \cup { item.author } :
        LET author == item.author
            video_id == item.aweme_id
            creator_data == extract_creator_data(author, today)
            crs == upsert_creator(creators, creator_data, source_trend, video_id)
            stats_data == extract_stats_data(creator_data.user_id, stats_author,
                                             creator_stats, source_trend, today)
        IN  /\ hist.calls < MaxStoreCalls
            /\ creators' = crs
            /\ creator_stats' = insert_creator_stats(creator_stats, crs, stats_data)
            /\ committed' = [ committed EXCEPT !.creators = creators',
                                               !.creator_stats = creator_stats' ]
            /\ hist' = [ LogSnapshot(
                           LogUpsert(hist, creator_data, source_trend, video_id),
                           creator_stats, crs, stats_data)
                         EXCEPT !.calls = @ + 1 ]
            /\ UNCHANGED << daily_trends, txAborted, today, poolVars, runVars >>

\* process_video_item's upsert_creator alone: the item fails after it without a
\* database error (the profile response is malformed) and its creator row stays.
StoreUpsertCreator ==
    \E item \in SavableItems, source_trend \in Trends :
        LET author == item.author
            video_id == item.aweme_id
            creator_data == extract_creator_data(author, today)
        IN  /\ hist.calls < MaxStoreCalls
            /\ creators' = upsert_creator(creators, creator_data, source_trend, video_id)
            /\ committed' = [ committed EXCEPT !.creators = creators' ]
            /\ hist' = [ LogUpsert(hist, creator_data, source_trend, video_id)
                         EXCEPT !.calls = @ + 1 ]
            /\ UNCHANGED << creator_stats, daily_trends, txAborted, today, poolVars, runVars >>

\* roll_call_update's snapshot upsert for a creator of the roster: no trend.
StoreRollCall ==
    \E user_id \in { r.user_id : r \in creators }, user_info \in Profiles :
        LET stats_data == extract_stats_data(user_id, user_info, creator_stats,
                                             NULL, today)
        IN  /\ hist.calls < MaxStoreCalls
            /\ creator_stats' = insert_creator_stats(creator_stats, creators, stats_data)
            /\ committed' = [ committed EXCEPT !.creator_stats = creator_stats' ]
            /\ hist' = [ LogSnapshot(hist, creator_stats, creators, stats_data)
                         EXCEPT !.calls = @ + 1 ]
            /\ UNCHANGED << creators, daily_trends, txAborted, today, poolVars, runVars >>

\* Midnight passes (between two runs).
NextDay ==
    /\ pc \in { "idle", "summary", "returned", "exited", "failed" }
    /\ today < MaxDay
    /\ today' = today + 1
    /\ UNCHANGED << dbVars, runVars, poolVars, hist >>

StoreNext == StoreSaveItem \/ StoreUpsertCreator \/ StoreRollCall \/ NextDay

StoreSpec == Init /\ [][StoreNext]_vars

(***************************************************************************)
(* Claims about the store operations (checked under StoreSpec).            *)
(***************************************************************************)
\* C1: after any sequence of upsert_creator calls on a user_id, creators holds
\* exactly one row for it; its discovered_via_trend and breakout_video_id are
\* those of the first call, its handle, nickname, avatar_url, signature and
\* last_updated_at those of the latest call.
C1_ProvenanceWriteOnce ==
    \A u \in Users :
        \A first \in hist.firstUpsert[u], last \in hist.lastUpsert[u] :
            /\ Cardinality(CreatorRows(creators, u)) = 1
            /\ \A r \in CreatorRows(creators, u) :
                /\ r.discovered_via_trend = first.trend_keyword
                /\ r.breakout_video_id = first.breakout_video_id
                /\ r.handle = last.creator_data.handle
                /\ r.nickname = last.creator_data.nickname
                /\ r.avatar_url = last.creator_data.avatar_url
                /\ r.signature = last.creator_data.signature
                /\ r.last_updated_at = last.creator_data.last_updated_at

\* C1 witness: a user upserted again with another trend, another video, another
\* handle and on a later day than in its first call.
C1_Witness ==
    \E u \in Users :
        \E first \in hist.firstUpsert[u], last \in hist.lastUpsert[u] :
            /\ first.trend_keyword # last.trend_keyword
            /\ first.breakout_video_id # last.breakout_video_id
            /\ first.creator_data.handle # last.creator_data.handle
            /\ first.creator_data.last_updated_at # last.creator_data.last_updated_at
            /\ CreatorRows(creators, u) # {}

\* C2 (as claimed): a snapshot upsert with source_trend absent, for a (user_id,
\* recorded_date) whose row has a non-null source_trend, keeps the stored
\* source_trend and overwrites the counts and growth fields, whatever the
\* creator's discovered_via_trend is.
C2_StoredSourceTrendKept ==
    \A call \in hist.snapCall :
        LET d == call.stats_data
        IN  (d.source_trend = NULL /\ \E b \in call.before : b.source_trend # NULL) =>
                \A b \in call.before :
                    \A r \in StatsRows(creator_stats, d.user_id, d.recorded_date) :
                        /\ r.source_trend = b.source_trend
                        /\ r.follower_count = d.follower_count
                        /\ r.heart_count = d.heart_count
                        /\ r.video_count = d.video_count
                        /\ r.daily_growth_followers = d.daily_growth_followers
                        /\ r.daily_growth_percent = d.daily_growth_percent

\* C3: creator_stats holds at most one row per (user_id, recorded_date), and the
\* row's counts and growth fields are those of the latest upsert for the pair.
C3_SnapshotUnique ==
    \A u \in Users, d \in Days :
        /\ Cardinality(StatsRows(creator_stats, u, d)) <= 1
        /\ \A last \in hist.lastSnap[<< u, d >>] :
            /\ Cardinality(StatsRows(creator_stats, u, d)) = 1
            /\ \A r \in StatsRows(creator_stats, u, d) :
                /\ r.follower_count = last.follower_count
                /\ r.heart_count = last.heart_count
                /\ r.video_count = last.video_count
                /\ r.daily_growth_followers = last.daily_growth_followers
                /\ r.daily_growth_percent = last.daily_growth_percent

\* C3 witness: a (user, date) upserted again with other counts than the first
\* time, and with a non-zero growth against an earlier day's snapshot.
C3_Witness ==
    \E u \in Users, d \in Days :
        \E first \in hist.firstSnap[<< u, d >>], last \in hist.lastSnap[<< u, d >>] :
            /\ first.follower_count # last.follower_count
            /\ first.heart_count # last.heart_count
            /\ last.daily_growth_followers # 0
            /\ StatsRows(creator_stats, u, d) # {}

(***************************************************************************)
(* CometDiscoveryEngine.run(): the specification Spec.                     *)
(***************************************************************************)
max_pages == 5
TOP_TRENDS == 10
username_blacklist == << "video", "videos", "clip", "clips", "rate", "rating" >>
trend_blacklist == << "2025", "stranger things", "bitcoin", "gameplay", "pepsi" >>

\* The lists get_trending_keywords may return.
RawTrendLists ==
    { << >>, << "Bitcoin 2025" >>, << "tA" >>, << "tB", "Bitcoin 2025", "tA" >> }

\* What the provider answers to filter_trends_with_ai: the call raises
\* ("error"), the content is not JSON ("invalid_json"), it is JSON but not a
\* list ("not_list"), it is a list holding a value that is not a string
\* ("mixed_list": the join of the log line raises TypeError), or it is a list of
\* strings ("list": the keywords it keeps, in its own order).
AIFailure(kind) == [ kind |-> kind, list |-> << >> ]
AIList(list) == [ kind |-> "list", list |-> list ]
AIResponses ==
    { AIFailure("error"), AIFailure("invalid_json"), AIFailure("not_list") }
    \cup { AIList(l) : l \in { << >>, << "tA" >>, << "tB" >>, << "tB", "tA" >> } }

\* What fetch_user_profile returns: None, a dict without data.user, a dict with
\* data.user, or a value that is not a dict (response.json() of a non-object).
ProfileResponses ==
    { [ kind |-> "none", user |-> {} ], [ kind |-> "no_user", user |-> {} ],
      [ kind |-> "not_dict", user |-> {} ] }
    \cup { [ kind |-> "ok", user |-> {p} ] : p \in Profiles }

\* after_blacklist of run()
AfterBlacklist(raw) ==
    SelectSeq(raw, LAMBDA keyword :
        \A i \in 1..Len(trend_blacklist) : ~Contains(trend_blacklist[i], lower(keyword)))

\* A plausible bug: a failed classification keeps no trend.
filter_trends_with_ai_fail_closed(trend_list, response) ==
    IF trend_list = << >> THEN << >>
    ELSE IF response.kind = "list" THEN response.list
    ELSE << >>

\* filter_trends_with_ai: the list the provider answers, as it is; the input
\* list when the call, the parsing or the logging of the answer raises or the
\* answer is not a list.
filter_trends_with_ai(trend_list, response) ==
    IF trend_list = << >> THEN << >>
    ELSE IF response.kind = "list" THEN response.list
    ELSE trend_list

\* all_participatory_trends[:10]
TopTrends(seq) == SubSeq(seq, 1, IF Len(seq) < TOP_TRENDS THEN Len(seq) ELSE TOP_TRENDS)

\* enumerate(trending_keywords, start=1) as (keyword, rank) tuples
TrendsWithRanks(seq) == [ i \in 1..Len(seq) |-> << seq[i], i >> ]

\* ORDER BY handle, for the handles of the inputs.
HandleOrder == << "amy", "amy.b", "Ben", "BenClip", "nobody" >>

\* SELECT user_id, handle FROM creators ORDER BY handle
SelectRoster(crs) ==
    LET hs == SelectSeq(HandleOrder, LAMBDA h : \E r \in crs : r.handle = h)
    IN  [ i \in 1..Len(hs) |->
            LET r == CHOOSE r \in crs : r.handle = hs[i] IN << r.user_id, r.handle >> ]

\* `user_id in self.discovered_creators`
already_processed_never(user_id, discovered) == FALSE
already_processed(user_id, discovered) == user_id \in discovered

\* filter_creator(author, caption, cover_url) for each item of the model.
filter_result ==
    [ item \in Items |-> filter_creator(item.author, item.desc, item.cover_url) ]

\* any(blocked in username for blocked in username_blacklist), username the
\* lowercased handle, for each item of the model.
username_blocked ==
    [ item \in Items |->
        \E i \in 1..Len(username_blacklist) :
            Contains(username_blacklist[i], lower(item.author.unique_id)) ]

\* Where process_video_item stops, and whether filter_creator was called on the way.
Stop(verdict, filter_called) == [ verdict |-> verdict, filter_called |-> filter_called ]

\* A plausible variant of ItemVerdict: ids seen before are skipped ahead of the filter.
ItemVerdict_dedup_first(item, discovered) ==
    IF ~item.has_aweme_info THEN Stop("no_aweme_info", FALSE)
    ELSE IF ~item.has_author \/ ~item.has_statistics
         THEN Stop("no_author_or_statistics", FALSE)
    ELSE IF item.cover_url = "" THEN Stop("no_cover", FALSE)
    ELSE IF extract_creator_data(item.author, 0).user_id \in discovered
         THEN Stop("already_processed", FALSE)
    ELSE IF ~filter_result[item].passed THEN Stop("filtered", TRUE)
    ELSE IF ~is_comet_creator(item.author, item.statistics) THEN Stop("not_comet", TRUE)
    ELSE IF extract_creator_data(item.author, 0).user_id = "" THEN Stop("no_user_id", TRUE)
    ELSE IF username_blocked[item] THEN Stop("username_blacklist", TRUE)
    ELSE Stop("store", TRUE)

\* process_video_item up to the storage layer: where the item stops.
ItemVerdict(item, discovered) ==
    IF ~item.has_aweme_info THEN Stop("no_aweme_info", FALSE)
    ELSE IF ~item.has_author \/ ~item.has_statistics
         THEN Stop("no_author_or_statistics", FALSE)
    ELSE IF item.cover_url = "" THEN Stop("no_cover", FALSE)
    ELSE IF ~filter_result[item].passed THEN Stop("filtered", TRUE)
    ELSE IF ~is_comet_creator(item.author, item.statistics) THEN Stop("not_comet", TRUE)
    ELSE IF extract_creator_data(item.author, 0).user_id = "" THEN Stop("no_user_id", TRUE)
    ELSE IF username_blocked[item] THEN Stop("username_blacklist", TRUE)
    ELSE IF already_processed(extract_creator_data(item.author, 0).user_id, discovered)
         THEN Stop("already_processed", TRUE)
    ELSE Stop("store", TRUE)

\* The verdicts reached after the filter passed.
FilterPassed(verdict) ==
    verdict \in { "not_comet", "no_user_id", "username_blacklist", "already_processed",
                  "store" }

\* process_video_item's filtering step (the cover URL, then filter_creator) for
\* an item that stopped with this verdict: whether it passed, and the layer the
\* rejection is counted under.
FilterStep(item, verdict) ==
    [ passed |-> FilterPassed(verdict),
      layer |-> IF verdict = "filtered" THEN filter_result[item].layer
                ELSE IF verdict = "no_cover" THEN 3 ELSE 0 ]

\* filter_stats after an item with this verdict (saved: the storage layer succeeded).
StatsAfterItem(fs, item, verdict, saved) ==
    LET layer == IF verdict = "filtered"
                 THEN filter_result[item].layer ELSE 0
    IN  [ fs EXCEPT
            !.total_processed = @ + 1,
            !.rejected_layer1 = @ + (IF layer = 1 \/ verdict = "username_blacklist"
                                     THEN 1 ELSE 0),
            !.rejected_layer2 = @ + (IF layer = 2 THEN 1 ELSE 0),
            !.rejected_layer3 = @ + (IF layer = 3 \/ verdict = "no_cover" THEN 1 ELSE 0),
            !.passed_filters = @ + (IF FilterPassed(verdict) THEN 1 ELSE 0),
            !.rejected_comet_criteria = @ + (IF verdict = "not_comet" THEN 1 ELSE 0),
            !.saved_to_db = @ + (IF saved THEN 1 ELSE 0) ]

\* ROLLBACK TO SAVEPOINT before_insert: the tables as they were at the savepoint.
ROLLBACK_TO_SAVEPOINT_missing(savepoint, current) == current
ROLLBACK_TO_SAVEPOINT(savepoint, current) == savepoint

\* conn.commit(): in a failed transaction PostgreSQL answers COMMIT with ROLLBACK.
ConnCommit(view, last_commit, aborted) == IF aborted THEN last_commit ELSE view

\* The run is over (or none has started): the process has exited.
RunEnded == { "idle", "summary", "returned", "exited", "failed" }

\* The history of a run that starts.
RunHistory(h, crs) ==
    [ h EXCEPT !.phases = << >>, !.event = "start", !.user = "",
               !.snapWrites = [ u \in Users |-> 0 ],
               !.filterEvals = [ u \in Users |-> 0 ],
               !.itemsSeen = [ u \in Users |-> 0 ],
               !.startCreators = { r.user_id : r \in crs },
               !.day = today,
               !.connected = FALSE, !.apiCalled = FALSE,
               !.filterOutcomes = {}, !.storedItems = {}, !.apiLog = NoApiCalls,
               !.rollSkipped = {}, !.rollAttempted = {}, !.rollFetched = {} ]

\* A plausible bug: the API key is checked after the connection is made.
connect_reached_always(api_key_set) == TRUE

\* Whether run() reaches self.db_manager.connect(): sys.exit(1) comes first
\* when TIKHUB_API_KEY is not set.
connect_reached(api_key_set) == api_key_set

\* main(): a new CometDiscoveryEngine, then run() up to the connection. Without
\* TIKHUB_API_KEY run() exits; a failed connect() is re-raised.
run_start ==
    /\ pc \in RunEnded
    /\ runNo < MaxRuns
    /\ \E api_key_set \in BOOLEAN, connect_ok \in BOOLEAN :
        /\ pc' = IF ~api_key_set THEN "exited"
                 ELSE IF ~connect_ok THEN "failed" ELSE "discovery"
        /\ hist' = [ RunHistory(hist, committed.creators) EXCEPT
                       !.connected = connect_reached(api_key_set) /\ connect_ok,
                       !.event = IF ~api_key_set THEN "no_api_key"
                                 ELSE IF ~connect_ok THEN "connect_failed" ELSE "start" ]
    /\ runNo' = runNo + 1
    /\ discovered_creators' = {}
    /\ filter_stats' = ZeroStats
    /\ trending_keywords' = << >>
    /\ trendIdx' = 0
    /\ page' = 0
    /\ itemsLeft' = 0
    /\ has_more' = FALSE
    /\ roster' = << >>
    /\ rosterIdx' = 0
    /\ rollCall' = [ updated_count |-> 0, failed_count |-> 0 ]
    /\ creators' = committed.creators
    /\ creator_stats' = committed.creator_stats
    /\ daily_trends' = committed.daily_trends
    /\ txAborted' = FALSE
    /\ UNCHANGED << committed, today, poolVars >>

\* run(), Phase 1 up to the selection of the trends: get_trending_keywords, the
\* trend blacklist, filter_trends_with_ai, the top 10. Each empty result returns.
after_empty_selection_to_summary == "summary"
after_empty_selection == "returned"

select_trends ==
    /\ pc = "discovery"
    /\ \E raw_trending_keywords \in RawTrendLists, response \in AIResponses :
        LET after_blacklist == AfterBlacklist(raw_trending_keywords)
            all_participatory_trends == filter_trends_with_ai(after_blacklist, response)
        IN  /\ trending_keywords' = TopTrends(all_participatory_trends)
            /\ pc' = IF all_participatory_trends = << >>
                     THEN after_empty_selection ELSE "store_trends"
            /\ hist' = [ hist EXCEPT
                           !.phases = Append(@, "discovery"),
                           !.apiCalled = TRUE,
                           !.event = IF raw_trending_keywords = << >> THEN "no_trends"
                                     ELSE IF after_blacklist = << >> THEN "all_blacklisted"
                                     ELSE IF all_participatory_trends = << >>
                                          THEN "ai_rejected_all"
                                     ELSE "trends_selected" ]
    /\ UNCHANGED << dbVars, today, poolVars, runNo, discovered_creators, filter_stats, trendIdx,
                    page, itemsLeft, has_more, roster, rosterIdx, rollCall >>

\* run(), Step 2: insert_daily_trends_batch (a failure is logged), conn.commit().
store_trends ==
    /\ pc = "store_trends"
    /\ \E db_error \in BOOLEAN :
        LET batch == insert_daily_trends_batch(daily_trends,
                         TrendsWithRanks(trending_keywords), today)
            view == IF db_error THEN Tables ELSE [ Tables EXCEPT !.daily_trends = batch ]
            result == ConnCommit(view, committed, db_error)
        IN  /\ daily_trends' = result.daily_trends
            /\ creators' = result.creators
            /\ creator_stats' = result.creator_stats
            /\ committed' = result
            /\ hist' = [ hist EXCEPT !.event = IF db_error THEN "trends_not_stored"
                                               ELSE "trends_stored" ]
    /\ txAborted' = FALSE
    /\ pc' = "search"
    /\ trendIdx' = 1
    /\ page' = 0
    /\ UNCHANGED << today, poolVars, runNo, discovered_creators, filter_stats, trending_keywords,
                    itemsLeft, has_more, roster, rosterIdx, rollCall >>

\* run(): the move from a finished or failed trend to the next trend, or to Phase 2.
NextTrend ==
    /\ trendIdx' = IF trendIdx < Len(trending_keywords) THEN trendIdx + 1 ELSE trendIdx
    /\ pc' = IF trendIdx < Len(trending_keywords) THEN "search" ELSE "roll_call"
    /\ page' = 0
    /\ itemsLeft' = 0
    /\ has_more' = FALSE

\* process_trend: one search_videos call and what the loop does with the response.
\* A response whose data is not a dict makes process_trend raise: run() logs the
\* error and calls conn.rollback().
search_videos ==
    /\ pc = "search"
    /\ page < max_pages
    /\ \/ \E kind \in { "no_response", "no_items" } :
            /\ pc' = "trend_done"
            /\ hist' = [ hist EXCEPT !.event = kind,
                           !.apiLog = AfterApiEvents(@, << "search" >>) ]
            /\ UNCHANGED << dbVars, trendIdx, page, itemsLeft, has_more >>
       \/ /\ creators' = committed.creators
          /\ creator_stats' = committed.creator_stats
          /\ daily_trends' = committed.daily_trends
          /\ txAborted' = FALSE
          /\ NextTrend
          /\ hist' = [ hist EXCEPT !.event = "trend_failed",
                         !.apiLog = AfterApiEvents(@, << "search" >>) ]
          /\ UNCHANGED committed
       \/ \E n \in 1..MaxItemsPerPage,
             more \in IF page + 1 < MaxPagesModel THEN BOOLEAN ELSE { FALSE } :
            /\ hist.fetched + n <= MaxItems
            /\ pc' = "items"
            /\ itemsLeft' = n
            /\ has_more' = more
            /\ hist' = [ hist EXCEPT !.event = "page_fetched", !.fetched = @ + n,
                           !.apiLog = AfterApiEvents(@, << "search" >>) ]
            /\ UNCHANGED << dbVars, trendIdx, page >>
    /\ UNCHANGED << today, poolVars, runNo, discovered_creators, filter_stats, trending_keywords,
                    roster, rosterIdx, rollCall >>

\* The API calls and sleeps of process_video_item for one item: the profile
\* fetch follows upsert_creator, and time.sleep(0.5) follows the fetch unless
\* reading the response raised (a response that is not a dict).
DiscoveryApiEvents(verdict, db_error, profile_response) ==
    IF verdict # "store" \/ db_error = "upsert_creator" \/ ~FETCH_PROFILE_IN_DISCOVERY
    THEN << >>
    ELSE IF profile_response.kind = "not_dict" THEN << "profile" >>
    ELSE << "profile", "sleep" >>

\* process_video_item for one item of the page, and the loop's step after it.
process_video_item ==
    /\ pc = "items"
    /\ itemsLeft > 0
    /\ \E item \in Items :
       \E profile_response \in IF ItemVerdict(item, discovered_creators).verdict = "store"
                                THEN ProfileResponses ELSE { [ kind |-> "none", user |-> {} ] },
          db_error \in IF ItemVerdict(item, discovered_creators).verdict = "store"
                       THEN { "none", "upsert_creator", "insert_creator_stats" }
                       ELSE { "none" } :
        LET source_trend == trending_keywords[trendIdx]
            checked == ItemVerdict(item, discovered_creators)
            verdict == checked.verdict
            author == item.author
            creator_data == extract_creator_data(author, today)
            user_id == creator_data.user_id
            savepoint == Tables
            upserted == upsert_creator(creators, creator_data, source_trend, item.aweme_id)
            stats_author == IF FETCH_PROFILE_IN_DISCOVERY /\ profile_response.kind = "ok"
                            THEN CHOOSE p \in profile_response.user : TRUE ELSE author
            stats_data == extract_stats_data(user_id, stats_author, creator_stats,
                                             source_trend, today)
            outcome ==
                IF verdict # "store" THEN verdict
                ELSE IF db_error = "upsert_creator" THEN "db_error"
                ELSE IF FETCH_PROFILE_IN_DISCOVERY /\ profile_response.kind = "not_dict"
                     THEN "exception"
                ELSE IF db_error = "insert_creator_stats" THEN "db_error"
                ELSE "saved"
            result ==
                CASE outcome = "saved" ->
                        [ Tables EXCEPT !.creators = upserted,
                            !.creator_stats =
                                insert_creator_stats(creator_stats, upserted, stats_data) ]
                  [] outcome = "exception" -> [ Tables EXCEPT !.creators = upserted ]
                  [] outcome = "db_error" ->
                        ROLLBACK_TO_SAVEPOINT(savepoint,
                            IF db_error = "upsert_creator" THEN Tables
                            ELSE [ Tables EXCEPT !.creators = upserted ])
                  [] OTHER -> Tables
            counted == item.has_aweme_info /\ item.has_author /\ user_id \in Users
            api_events == DiscoveryApiEvents(verdict, db_error, profile_response)
        IN  /\ creators' = result.creators
            /\ creator_stats' = result.creator_stats
            /\ daily_trends' = result.daily_trends
            /\ discovered_creators' = IF outcome = "saved"
                                      THEN discovered_creators \cup { user_id }
                                      ELSE discovered_creators
            /\ filter_stats' = StatsAfterItem(filter_stats, item, verdict, outcome = "saved")
            /\ hist' = [ hist EXCEPT
                  !.event = outcome,
                  !.filterOutcomes =
                      IF item.has_aweme_info /\ item.has_author /\ item.has_statistics
                      THEN @ \cup { [ nickname |-> author.nickname,
                                      unique_id |-> author.unique_id,
                                      signature |-> author.signature,
                                      caption |-> item.desc,
                                      step |-> FilterStep(item, verdict) ] }
                      ELSE @,
                  !.storedItems = IF outcome \in { "saved", "exception" }
                                  THEN @ \cup { item } ELSE @,
                  !.apiLog = AfterApiEvents(@, api_events),
                  !.user = IF item.has_aweme_info /\ item.has_author THEN user_id ELSE "",
                  !.snapWrites = IF outcome = "saved"
                                 THEN [ @ EXCEPT ![user_id] = @ + 1 ] ELSE @,
                  !.filterEvals = IF counted /\ checked.filter_called
                                  THEN [ @ EXCEPT ![user_id] = @ + 1 ] ELSE @,
                  !.itemsSeen = IF counted /\ item.has_statistics /\ item.cover_url # ""
                                THEN [ @ EXCEPT ![user_id] = @ + 1 ] ELSE @ ]
    /\ itemsLeft' = itemsLeft - 1
    /\ pc' = IF itemsLeft > 1 THEN "items"
             ELSE IF has_more /\ page + 1 < max_pages THEN "search" ELSE "trend_done"
    /\ page' = IF itemsLeft = 1 /\ has_more THEN page + 1 ELSE page
    /\ UNCHANGED << committed, txAborted, today, poolVars, runNo, trending_keywords, trendIdx,
                    has_more, roster, rosterIdx, rollCall >>

\* run(): conn.commit() after process_trend returned, then the next trend.
commit_trend_skipped ==
    /\ pc = "trend_done"
    /\ NextTrend
    /\ hist' = [ hist EXCEPT !.event = "trend_committed" ]
    /\ UNCHANGED << dbVars, today, poolVars, runNo, discovered_creators, filter_stats,
                    trending_keywords, roster, rosterIdx, rollCall >>

commit_trend ==
    /\ pc = "trend_done"
    /\ LET result == ConnCommit(Tables, committed, txAborted)
       IN  /\ committed' = result
           /\ creators' = result.creators
           /\ creator_stats' = result.creator_stats
           /\ daily_trends' = result.daily_trends
    /\ txAborted' = FALSE
    /\ NextTrend
    /\ hist' = [ hist EXCEPT !.event = "trend_committed" ]
    /\ UNCHANGED << today, poolVars, runNo, discovered_creators, filter_stats, trending_keywords,
                    roster, rosterIdx, rollCall >>

\* roll_call_update: the roster query. When it raises, run() logs the error and
\* calls conn.rollback(); the run goes on to the summary.
roll_call_begin ==
    /\ pc = "roll_call"
    /\ \/ /\ roster' = SelectRoster(creators)
          /\ rosterIdx' = 1
          /\ pc' = IF roster' = << >> THEN "roll_call_done" ELSE "roll_call_loop"
          /\ hist' = [ hist EXCEPT !.phases = Append(@, "roll_call"),
                                   !.event = "roster_fetched" ]
          /\ UNCHANGED dbVars
       \/ /\ creators' = committed.creators
          /\ creator_stats' = committed.creator_stats
          /\ daily_trends' = committed.daily_trends
          /\ txAborted' = FALSE
          /\ pc' = "summary"
          /\ hist' = [ hist EXCEPT !.phases = Append(@, "roll_call"),
                                   !.event = "roll_call_failed" ]
          /\ UNCHANGED << committed, roster, rosterIdx >>
    /\ UNCHANGED << today, poolVars, runNo, discovered_creators, filter_stats,
                    trending_keywords, trendIdx, page, itemsLeft, has_more, rollCall >>

\* The API calls and sleeps of one iteration of roll_call_update: a skipped
\* creator makes none; every other path (no response, no data, no user, the
\* update, an exception) ends with time.sleep(1).
RollCallApiEvents(skipped) ==
    IF skipped THEN << >> ELSE << "profile", "sleep" >>

\* roll_call_update: one iteration of the loop over the roster. In a failed
\* transaction every statement raises, the SELECT of get_previous_stats included.
roll_call_step ==
    /\ pc = "roll_call_loop"
    /\ \E response \in ProfileResponses, db_error \in BOOLEAN :
        LET user_id == roster[rosterIdx][1]
            skipped == already_processed(user_id, discovered_creators)
            fetched == ~skipped /\ response.kind = "ok"
            user_info == CHOOSE p \in response.user : TRUE
            stats_data == extract_stats_data(user_id, user_info, creator_stats, NULL, today)
            updated == fetched /\ ~txAborted /\ ~db_error
        IN  /\ creator_stats' = IF updated
                                THEN insert_creator_stats(creator_stats, creators, stats_data)
                                ELSE creator_stats
            /\ txAborted' = (txAborted \/ (fetched /\ db_error))
            /\ rollCall' = [ updated_count |-> rollCall.updated_count
                                               + (IF updated THEN 1 ELSE 0),
                             failed_count |-> rollCall.failed_count
                                              + (IF ~skipped /\ ~updated THEN 1 ELSE 0) ]
            /\ hist' = [ hist EXCEPT
                  !.event = IF skipped THEN "roll_call_skipped"
                            ELSE IF updated THEN "roll_call_updated" ELSE "creator_failed",
                  !.user = user_id,
                  !.snapWrites = IF updated THEN [ @ EXCEPT ![user_id] = @ + 1 ] ELSE @,
                  !.apiLog = AfterApiEvents(@, RollCallApiEvents(skipped)),
                  !.rollSkipped = IF skipped THEN @ \cup { user_id } ELSE @,
                  !.rollAttempted = IF ~skipped THEN @ \cup { user_id } ELSE @,
                  !.rollFetched = IF fetched /\ ~db_error THEN @ \cup { user_id } ELSE @ ]
    /\ rosterIdx' = rosterIdx + 1
    /\ pc' = IF rosterIdx < Len(roster) THEN "roll_call_loop" ELSE "roll_call_done"
    /\ UNCHANGED << creators, daily_trends, committed, today, poolVars, runNo, discovered_creators,
                    filter_stats, trending_keywords, trendIdx, page, itemsLeft, has_more,
                    roster >>

\* run(): conn.commit() after roll_call_update, the final summary, and the
\* finally clause that closes the connection.
commit_roll_call ==
    /\ pc = "roll_call_done"
    /\ LET result == ConnCommit(Tables, committed, txAborted)
       IN  /\ committed' = result
           /\ creators' = result.creators
           /\ creator_stats' = result.creator_stats
           /\ daily_trends' = result.daily_trends
    /\ txAborted' = FALSE
    /\ pc' = "summary"
    /\ hist' = [ hist EXCEPT !.event = "summary" ]
    /\ UNCHANGED << today, poolVars, runNo, discovered_creators, filter_stats, trending_keywords,
                    trendIdx, page, itemsLeft, has_more, roster, rosterIdx, rollCall >>

Next ==
    \/ run_start
    \/ select_trends
    \/ store_trends
    \/ search_videos
    \/ process_video_item
    \/ commit_trend
    \/ roll_call_begin
    \/ roll_call_step
    \/ commit_roll_call
    \/ NextDay

Spec == Init /\ [][Next]_vars

(***************************************************************************)
(* Properties of the engine run.                                           *)
(***************************************************************************)
\* The keys of the rows of the three tables.
RowKeys(t) ==
    [ creators |-> { r.user_id : r \in t.creators },
      creator_stats |-> { << r.user_id, r.recorded_date >> : r \in t.creator_stats },
      daily_trends |-> { << r.trend_keyword, r.discovered_at >> : r \in t.daily_trends } ]

KeysKept(t1, t2) ==
    /\ RowKeys(t1).creators \subseteq RowKeys(t2).creators
    /\ RowKeys(t1).creator_stats \subseteq RowKeys(t2).creator_stats
    /\ RowKeys(t1).daily_trends \subseteq RowKeys(t2).daily_trends

\* C4: a database error while one Discovery item is saved undoes that item's
\* changes only. The tables are as they were before the item, with the rows of
\* the earlier items of the trend still uncommitted in the transaction; the
\* item's id is not in the discovered set; the transaction is usable, so the
\* loop goes on with the next item; and the commit that ends the trend makes
\* the transaction's rows the committed ones.
C4_ItemErrorRollsBackItemOnly ==
    [][ /\ (pc = "items" /\ hist'.event = "db_error") =>
              /\ creators' = creators
              /\ creator_stats' = creator_stats
              /\ daily_trends' = daily_trends
              /\ committed' = committed
              /\ ~txAborted'
              /\ discovered_creators' = discovered_creators
              /\ hist'.user \notin discovered_creators'
              /\ pc' \in { "items", "search", "trend_done" }
        /\ (pc = "trend_done" /\ hist'.event = "trend_committed") =>
              /\ committed' = [ creators |-> creators, creator_stats |-> creator_stats,
                                daily_trends |-> daily_trends ]
              /\ creators' = creators
              /\ creator_stats' = creator_stats
      ]_vars

\* A database error has just struck the item of one account while the creator and
\* the snapshot of another account, saved by an earlier item of the trend, are in
\* the transaction and not yet committed.
C4_Witness ==
    /\ hist.event = "db_error"
    /\ hist.user \in Users
    /\ hist.user \notin discovered_creators
    /\ \E u \in discovered_creators :
          /\ u # hist.user
          /\ u \in RowKeys(Tables).creators
          /\ u \notin RowKeys(committed).creators
          /\ << u, today >> \in RowKeys(Tables).creator_stats
          /\ << u, today >> \notin RowKeys(committed).creator_stats

\* C5: the phases run in order and are committed independently. Each trend and
\* Roll Call start with nothing uncommitted; no step removes a committed row; a
\* failed trend or a failed Roll Call leaves the committed rows as they were and
\* discards what it had not committed.
C5_PhasesCommittedIndependently ==
    /\ [] ( /\ hist.phases \in { << >>, << "discovery" >>, << "discovery", "roll_call" >> }
            /\ (pc \in { "roll_call_loop", "roll_call_done" })
                  => hist.phases = << "discovery", "roll_call" >>
            /\ (pc \in { "store_trends", "search", "items", "trend_done", "roll_call" })
                  => hist.phases = << "discovery" >>
            /\ (pc = "roll_call" \/ (pc = "search" /\ page = 0)) => Tables = committed )
    /\ [][ /\ KeysKept(committed, committed')
           /\ ( \/ hist'.event \in { "trend_failed", "roll_call_failed" }
                \/ (pc = "roll_call_done" /\ txAborted) )
                => (committed' = committed /\ creators' = committed.creators
                    /\ creator_stats' = committed.creator_stats
                    /\ daily_trends' = committed.daily_trends)
         ]_vars

\* The second trend of a run has just failed after its first item was saved: the
\* item's rows are gone, the rows committed with the first trend are there.
C5_Witness ==
    /\ hist.event = "trend_failed"
    /\ trendIdx = 2
    /\ hist.snapWrites # [ u \in Users |-> 0 ]
    /\ discovered_creators # {}
    /\ \E u \in discovered_creators : u \notin RowKeys(committed).creators
    /\ \E u \in discovered_creators : << u, today >> \in RowKeys(committed).creator_stats
    /\ committed.daily_trends # {}
    /\ Tables = committed

\* C6: a failure on one roster creator does not cost the others their snapshot.
\* When the run is at its summary, every roster creator whose profile was
\* fetched and whose own snapshot upsert met no database error has a committed
\* snapshot for the day of the run.
C6_OtherRosterSnapshotsCommitted ==
    (hist.event = "summary") =>
        \A u \in hist.rollFetched : << u, hist.day >> \in RowKeys(committed).creator_stats

\* C7: a run that passed the API-key check and connected has, when it ends,
\* executed Roll Call after Discovery: every creator stored when the run began
\* and not saved by Discovery was asked for its profile.
C7_RollCallAlwaysExecuted ==
    (pc \in { "summary", "returned" }) =>
        /\ hist.phases = << "discovery", "roll_call" >>
        /\ (hist.event # "roll_call_failed") =>
              \A u \in hist.startCreators \ discovered_creators : u \in hist.rollAttempted

\* C8: in one run each creator's snapshot is written at most once.
C8_SnapshotOncePerRun == \A u \in Users : hist.snapWrites[u] <= 1

\* A run at its summary in which an account saved by Discovery appeared in a
\* second item and was skipped by Roll Call.
C8_Witness ==
    /\ pc = "summary"
    /\ \E u \in Users :
          /\ hist.snapWrites[u] = 1
          /\ hist.itemsSeen[u] >= 2
          /\ u \in discovered_creators
          /\ u \in hist.rollSkipped

clean_old_data_exclusive(t, cutoff) ==
    LET stats == { r \in t.creator_stats : ~(r.recorded_date <= cutoff) }
        trends == { r \in t.daily_trends : ~(r.discovered_at < cutoff) }
        crs == { c \in t.creators : c.user_id \in { r.user_id : r \in stats } }
    IN  [ tables |-> [ creators |-> crs, creator_stats |-> stats, daily_trends |-> trends ],
          old_stats_deleted |-> Cardinality(t.creator_stats \ stats),
          old_trends_deleted |-> Cardinality(t.daily_trends \ trends),
          orphaned_creators_deleted |-> Cardinality(t.creators \ crs) ]

\* A variant that deletes the snapshots of the stale creators only.
clean_old_data_stale_only(t, cutoff) ==
    LET fresh == { r.user_id : r \in { x \in t.creator_stats : ~(x.recorded_date < cutoff) } }
        stats == { r \in t.creator_stats : r.user_id \in fresh }
        trends == { r \in t.daily_trends : ~(r.discovered_at < cutoff) }
        crs == { c \in t.creators : c.user_id \in fresh }
    IN  [ tables |-> [ creators |-> crs, creator_stats |-> stats, daily_trends |-> trends ],
          old_stats_deleted |-> Cardinality(t.creator_stats \ stats),
          old_trends_deleted |-> Cardinality(t.daily_trends \ trends),
          orphaned_creators_deleted |-> Cardinality(t.creators \ crs) ]

\* The three DELETE statements of the script, `today` being its cutoff date, and
\* the row counts it prints: snapshots before the cutoff, trends before the
\* cutoff, then the creators left without any snapshot.
clean_old_data(t, cutoff) ==
    LET stats == { r \in t.creator_stats : ~(r.recorded_date < cutoff) }
        trends == { r \in t.daily_trends : ~(r.discovered_at < cutoff) }
        crs == { c \in t.creators : c.user_id \in { r.user_id : r \in stats } }
    IN  [ tables |-> [ creators |-> crs, creator_stats |-> stats, daily_trends |-> trends ],
          old_stats_deleted |-> Cardinality(t.creator_stats \ stats),
          old_trends_deleted |-> Cardinality(t.daily_trends \ trends),
          orphaned_creators_deleted |-> Cardinality(t.creators \ crs) ]

\* One run of the script: the deletes and conn.commit(). The cutoff is the date
\* written into the script, today's or an earlier one.
CleanOldData ==
    /\ pc = "idle"
    /\ \E cutoff \in 1..today :
        LET result == clean_old_data(Tables, cutoff)
        IN  /\ creators' = result.tables.creators
            /\ creator_stats' = result.tables.creator_stats
            /\ daily_trends' = result.tables.daily_trends
            /\ committed' = result.tables
            /\ hist' = [ hist EXCEPT !.cleaned =
                           { [ cutoff |-> cutoff, before |-> Tables,
                               after |-> result.tables,
                               reported |-> result.orphaned_creators_deleted ] } ]
    /\ UNCHANGED << txAborted, today, poolVars, runVars >>

CleanNext == StoreNext \/ CleanOldData

CleanSpec == Init /\ [][CleanNext]_vars

\* The creators of table state t without a snapshot dated on or after cutoff.
StaleCreators(t, cutoff) ==
    { c \in t.creators :
        ~ \E r \in t.creator_stats : r.user_id = c.user_id /\ r.recorded_date >= cutoff }

\* C11: eviction with cutoff C deletes exactly the creators without a snapshot
\* dated C or later, and all their snapshots; it reports their number; a creator
\* with a snapshot dated exactly C is retained.
C11_EvictsExactlyStale ==
    \A k \in hist.cleaned :
        LET stale == StaleCreators(k.before, k.cutoff)
        IN  /\ k.after.creators = k.before.creators \ stale
            /\ \A c \in stale : \A r \in k.after.creator_stats : r.user_id # c.user_id
            /\ k.reported = Cardinality(stale)
            /\ \A c \in k.before.creators :
                  (\E r \in k.before.creator_stats :
                        r.user_id = c.user_id /\ r.recorded_date = k.cutoff)
                  => c \in k.after.creators

\* An eviction that deleted a creator whose only snapshot was older than the
\* cutoff and retained another whose latest snapshot is dated on the cutoff.
C11_Witness ==
    \E k \in hist.cleaned :
        /\ k.reported = 1
        /\ \E c \in k.before.creators \ k.after.creators :
              \E r \in k.before.creator_stats :
                  r.user_id = c.user_id /\ r.recorded_date < k.cutoff
        /\ \E c \in k.after.creators :
              /\ \E r \in k.before.creator_stats :
                    r.user_id = c.user_id /\ r.recorded_date = k.cutoff
              /\ \A r \in k.before.creator_stats :
                    r.user_id = c.user_id => r.recorded_date <= k.cutoff

\* C12 as stated: a creator with a snapshot dated on or after the cutoff keeps
\* its row and all of its snapshots, those dated before the cutoff included.
C12_RetainedUntouched ==
    \A k \in hist.cleaned :
        \A c \in k.before.creators \ StaleCreators(k.before, k.cutoff) :
            /\ c \in k.after.creators
            /\ \A r \in k.before.creator_stats :
                  r.user_id = c.user_id => r \in k.after.creator_stats

\* C12 as amended: a retained creator keeps its row and its snapshots dated on
\* or after the cutoff, unchanged; its snapshots dated before the cutoff are
\* deleted, as are all snapshots dated before the cutoff.
C12_RetainedKeepRecentOnly ==
    \A k \in hist.cleaned :
        /\ \A c \in k.before.creators \ StaleCreators(k.before, k.cutoff) :
              /\ c \in k.after.creators
              /\ \A r \in k.before.creator_stats :
                    r.user_id = c.user_id =>
                        (r \in k.after.creator_stats <=> r.recorded_date >= k.cutoff)
        /\ k.after.creator_stats \subseteq k.before.creator_stats
        /\ \A r \in k.after.creator_stats : r.recorded_date >= k.cutoff

\* An eviction that retained a creator and deleted its snapshot of an earlier day.
C12_Witness ==
    \E k \in hist.cleaned :
        \E c \in k.after.creators :
            /\ \E r \in k.before.creator_stats \ k.after.creator_stats :
                  r.user_id = c.user_id /\ r.recorded_date < k.cutoff
            /\ \E r \in k.after.creator_stats :
                  r.user_id = c.user_id /\ r.recorded_date >= k.cutoff

(***************************************************************************)
(* GrowthSpec: the snapshot of one creator written on a day that follows   *)
(* any history of earlier snapshots (extract_stats_data, then              *)
(* insert_creator_stats), as process_video_item and roll_call_update do.   *)
(***************************************************************************)
GrowthDays == 1..(MaxGap + 1)
PrevFollowers == { 0, 800, 1000 }             \* follower counts of earlier days
CurFollowers == { 0, 909, 993, 1007, 1300 }   \* follower counts the API returns today

\* The author object of the creator u1 with the given follower count.
AuthorWith(followers) == [ AuthorAmy EXCEPT !.follower_count = Num(followers) ]

\* The creators table after upsert_creator for u1 (found under trend_keyword)
\* and for u2.
CreatorsFoundVia(trend_keyword) ==
    upsert_creator(
        upsert_creator({}, extract_creator_data(AuthorAmy, 1), trend_keyword, "v1"),
        extract_creator_data(AuthorBen, 1), "tB", "v2")

RECURSIVE StatsAfterDays(_, _, _)
\* creator_stats after the days 1..day: on each day d with written[d] = {n} the
\* snapshot of u1 with n followers is written (found again under the trend tB),
\* and on the last earlier day the snapshot of u2 is.
StatsAfterDays(written, crs, day) ==
    IF day = 0 THEN {}
    ELSE LET stats == StatsAfterDays(written, crs, day - 1)
             with_u2 ==
                 IF day = MaxGap
                 THEN insert_creator_stats(stats, crs,
                          extract_stats_data("u2", AuthorBen, stats, "tB", day))
                 ELSE stats
         IN  IF written[day] = {} THEN with_u2
             ELSE insert_creator_stats(with_u2, crs,
                      extract_stats_data("u1",
                          AuthorWith(CHOOSE n \in written[day] : TRUE),
                          with_u2, "tB", day))

\* Today is the day after MaxGap earlier days; the store holds what earlier
\* runs (and possibly an earlier run of today) committed.
GrowthInit ==
    /\ \E trend_keyword \in { "tA", NULL } :
         /\ creators = CreatorsFoundVia(trend_keyword)
         /\ \E written \in [ GrowthDays -> { {} } \cup { {n} : n \in PrevFollowers } ] :
              creator_stats = StatsAfterDays(written, creators, MaxGap + 1)
    /\ daily_trends = {}
    /\ committed = [ creators |-> creators, creator_stats |-> creator_stats,
                     daily_trends |-> daily_trends ]
    /\ txAborted = FALSE
    /\ today = MaxGap + 1
    /\ pc = "idle"
    /\ runNo = 0
    /\ discovered_creators = {}
    /\ filter_stats = ZeroStats
    /\ trending_keywords = << >>
    /\ trendIdx = 0
    /\ page = 0
    /\ itemsLeft = 0
    /\ has_more = FALSE
    /\ roster = << >>
    /\ rosterIdx = 0
    /\ rollCall = [ updated_count |-> 0, failed_count |-> 0 ]
    /\ PoolIdle
    /\ hist = NoHistory

\* stats_data = extract_stats_data(user_id, author, cursor, source_trend), then
\* insert_creator_stats(cursor, stats_data) and the commit, for the creator u1:
\* source_trend is the trend of the search (process_video_item) or None
\* (roll_call_update).
WriteSnapshot ==
    \E followers \in CurFollowers, source_trend \in { NULL, "tB" } :
        LET previous_stats == get_previous_stats(creator_stats, "u1", today)
            stats_data == extract_stats_data("u1", AuthorWith(followers),
                                             creator_stats, source_trend, today)
        IN  /\ hist.calls < MaxWrites
            /\ creator_stats' = insert_creator_stats(creator_stats, creators, stats_data)
            /\ committed' = [ committed EXCEPT !.creator_stats = creator_stats' ]
            /\ hist' = [ hist EXCEPT
                 !.calls = @ + 1,
                 !.growthCall =
                     { [ followers |-> followers,
                         source_trend |-> source_trend,
                         date |-> today,
                         before |-> creator_stats,
                         creators |-> creators,
                         previous_stats |-> previous_stats,
                         divisor |->
                             { growth_divisor(today, r.recorded_date) :
                                 r \in previous_stats },
                         after |-> creator_stats',
                         call_before |->
                             { [ followers |-> k.followers,
                                 source_trend |-> k.source_trend ] :
                                 k \in hist.growthCall } ] } ]
            /\ UNCHANGED << creators, daily_trends, txAborted, today, poolVars, runVars >>

GrowthNext == WriteSnapshot

GrowthSpec == GrowthInit /\ [][GrowthNext]_vars

\* The snapshots of a creator dated before a day, and the latest of them.
EarlierRows(stats, user_id, day) ==
    { r \in stats : r.user_id = user_id /\ r.recorded_date < day }
LatestEarlier(stats, user_id, day) ==
    { r \in EarlierRows(stats, user_id, day) :
        \A q \in EarlierRows(stats, user_id, day) : q.recorded_date <= r.recorded_date }

\* The snapshot writes of the history whose baseline exists, as records of the
\* current followers c, the baseline's followers p, the gap d in days and the
\* row stored for today.
GrowthCases ==
    { [ c |-> k.followers, p |-> b.follower_count, d |-> k.date - b.recorded_date,
        row |-> r ] :
        << k, b, r >> \in
          { t \in hist.growthCall \X creator_stats \X creator_stats :
              /\ t[2] \in LatestEarlier(t[1].before, "u1", t[1].date)
              /\ t[3] \in StatsRows(t[1].after, "u1", t[1].date) } }

Abs(x) == IF x >= 0 THEN x ELSE -x

\* C13: for a previous snapshot with p > 0 followers dated d >= 1 days before
\* today and c followers now, the stored growth is the average per day over the
\* gap: daily_growth_percent is (c - p) / d / p * 100 rounded to a nearest
\* hundredth, the stored daily rate is (c - p) / d whenever d divides the
\* difference, and p = 1000, d = 3, c = 1300 stores 100 and 10.00.
C13_GrowthIsPerDayAverage ==
    \A g \in GrowthCases :
        (g.p > 0 /\ g.d >= 1) =>
            /\ 2 * Abs(g.row.daily_growth_percent * g.d * g.p
                       - (g.c - g.p) * 10000) <= g.d * g.p
            /\ ((g.c - g.p) % g.d = 0 =>
                    g.row.daily_growth_followers * g.d = g.c - g.p)
            /\ ((g.p = 1000 /\ g.d = 3 /\ g.c = 1300) =>
                    /\ g.row.daily_growth_followers = 100
                    /\ g.row.daily_growth_percent = 1000)

\* The jump from 1000 to 1300 followers over three days has been stored as 100
\* a day and 10.00 percent.
C13_Witness ==
    \E g \in GrowthCases :
        /\ g.p = 1000 /\ g.d = 3 /\ g.c = 1300
        /\ g.row.daily_growth_followers = 100
        /\ g.row.daily_growth_percent = 1000

\* C14: daily_growth_followers stores the daily rate (c - p) / d truncated
\* toward zero, whatever the sign of the difference: its magnitude is the
\* integer part of |c - p| / d and its sign is that of c - p; -7 over 2 days
\* stores -3 and 7 over 2 days stores 3.
C14_RateTruncatedTowardZero ==
    \A g \in GrowthCases :
        g.d >= 1 =>
            LET delta == g.c - g.p
                rate == g.row.daily_growth_followers
            IN  /\ Abs(rate) * g.d <= Abs(delta)
                /\ Abs(delta) < (Abs(rate) + 1) * g.d
                /\ (delta >= 0 => rate >= 0)
                /\ (delta <= 0 => rate <= 0)
                /\ ((delta = -7 /\ g.d = 2) => rate = -3)
                /\ ((delta = 7 /\ g.d = 2) => rate = 3)

\* A loss of 7 followers over two days has been stored as -3 a day.
C14_Witness ==
    \E g \in GrowthCases :
        g.c - g.p = -7 /\ g.d = 2 /\ g.row.daily_growth_followers = -3

\* C15: whenever a baseline exists, the divisor of the growth computation is
\* max(today - baseline date, 1), hence at least 1 (no division by zero or by
\* a negative gap), also when a snapshot of today is already stored; without a
\* baseline nothing is divided.
C15_DivisorIsGapAtLeastOne ==
    \A k \in hist.growthCall :
        LET baseline == LatestEarlier(k.before, "u1", k.date)
        IN  /\ (baseline = {} => k.divisor = {})
            /\ \A b \in baseline :
                 LET gap == k.date - b.recorded_date
                 IN  /\ k.divisor = { IF gap > 1 THEN gap ELSE 1 }
                     /\ \A n \in k.divisor : n >= 1

\* A snapshot has been written over a stored snapshot of today with a
\* baseline three days back: the divisor was 3.
C15_Witness ==
    \E k \in hist.growthCall :
        /\ StatsRows(k.before, "u1", k.date) # {}
        /\ \E b \in LatestEarlier(k.before, "u1", k.date) :
             k.date - b.recorded_date = 3
        /\ k.divisor = {3}

\* C16: a snapshot written without any earlier snapshot stores 0 for both
\* daily_growth_followers and daily_growth_percent; one written against a
\* baseline of 0 followers stores daily_growth_percent 0.00 for every current
\* follower count; in both cases the row is written (no error).
C16_DegenerateBaselineZeroGrowth ==
    \A k \in hist.growthCall :
        LET baseline == LatestEarlier(k.before, "u1", k.date)
            rows == StatsRows(k.after, "u1", k.date)
        IN  /\ (baseline = {} \/ \E b \in baseline : b.follower_count = 0) =>
                   \E r \in rows : r.follower_count = k.followers
            /\ baseline = {} =>
                   \A r \in rows : /\ r.daily_growth_followers = 0
                                   /\ r.daily_growth_percent = 0
            /\ \A b \in baseline :
                   b.follower_count = 0 =>
                       \A r \in rows : r.daily_growth_percent = 0

\* A snapshot with 1300 followers has been written against a baseline of 0
\* followers and stores 0.00 percent.
C16_Witness ==
    \E k \in hist.growthCall :
        /\ k.followers = 1300
        /\ \E b \in LatestEarlier(k.before, "u1", k.date) : b.follower_count = 0
        /\ \E r \in StatsRows(k.after, "u1", k.date) :
             r.follower_count = 1300 /\ r.daily_growth_percent = 0

\* C17: the baseline get_previous_stats returns is a stored snapshot of that
\* creator dated strictly before the given date, with no snapshot of the
\* creator between it and the given date (however many days back it is); a
\* snapshot dated on the given date is never returned; and nothing is returned
\* exactly when the creator has no earlier snapshot.
C17_BaselineIsLatestStrictlyEarlier ==
    \A k \in hist.growthCall :
        /\ Cardinality(k.previous_stats) <= 1
        /\ \A r \in k.previous_stats :
             /\ r \in k.before
             /\ r.user_id = "u1"
             /\ r.recorded_date < k.date
             /\ ~ \E q \in k.before : /\ q.user_id = "u1"
                                      /\ r.recorded_date < q.recorded_date
                                      /\ q.recorded_date < k.date
        /\ (k.previous_stats = {}) <=>
               ~ \E q \in k.before : q.user_id = "u1" /\ q.recorded_date < k.date

\* The creator had snapshots on two earlier days, none yesterday, and one of
\* today (and another creator had one yesterday): the later of the two earlier
\* ones was returned.
C17_Witness ==
    \E k \in hist.growthCall :
        /\ StatsRows(k.before, "u1", k.date) # {}
        /\ StatsRows(k.before, "u1", k.date - 1) = {}
        /\ StatsRows(k.before, "u2", k.date - 1) # {}
        /\ StatsRows(k.before, "u1", k.date - 3) # {}
        /\ k.previous_stats # {}
        /\ k.previous_stats = StatsRows(k.before, "u1", k.date - 2)

\* C18: a snapshot written with no source trend for a (creator, date) that has
\* no row yet is stored with the discovered_via_trend the creator's row holds
\* at the write, hence with NULL only if that is NULL.
C18_AbsentSourceResolvedToDiscoveryTrend ==
    \A k \in hist.growthCall :
        (k.source_trend = NULL /\ StatsRows(k.before, "u1", k.date) = {}) =>
            /\ StatsRows(k.after, "u1", k.date) # {}
            /\ \A r \in StatsRows(k.after, "u1", k.date) :
                 \A c \in CreatorRows(k.creators, "u1") :
                     /\ r.source_trend = c.discovered_via_trend
                     /\ (r.source_trend = NULL <=> c.discovered_via_trend = NULL)

\* The first snapshot of the day has been written with no source trend for a
\* creator discovered via tA whose earlier snapshots carry tB: it carries tA.
C18_Witness ==
    \E k \in hist.growthCall :
        /\ k.source_trend = NULL
        /\ StatsRows(k.before, "u1", k.date) = {}
        /\ \E b \in k.before : b.user_id = "u1" /\ b.source_trend = "tB"
        /\ \E c \in CreatorRows(k.creators, "u1") : c.discovered_via_trend = "tA"
        /\ \E r \in StatsRows(k.after, "u1", k.date) : r.source_trend = "tA"

\* C19: a snapshot write repeated on the same date with the same current
\* counters leaves the counters, daily_growth_followers and
\* daily_growth_percent of the day's row as the first write left them (growth
\* is computed against the latest earlier snapshot, never against today's own
\* row); repeated with the same source trend too, it leaves the whole table as
\* the first write left it.
C19_RetryLeavesSameRow ==
    \A k \in hist.growthCall :
        \A first \in k.call_before :
            first.followers = k.followers =>
                /\ \A r \in StatsRows(k.after, "u1", k.date) :
                     \E q \in StatsRows(k.before, "u1", k.date) :
                         /\ r.follower_count = q.follower_count
                         /\ r.heart_count = q.heart_count
                         /\ r.video_count = q.video_count
                         /\ r.daily_growth_followers = q.daily_growth_followers
                         /\ r.daily_growth_percent = q.daily_growth_percent
                /\ Cardinality(StatsRows(k.after, "u1", k.date)) = 1
                /\ (first.source_trend = k.source_trend => k.after = k.before)

\* The same write has been made twice today, with a growth that is not zero,
\* and the second left the table as it was.
C19_Witness ==
    \E k \in hist.growthCall :
        /\ k.call_before = { [ followers |-> k.followers,
                               source_trend |-> k.source_trend ] }
        /\ k.after = k.before
        /\ \E r \in StatsRows(k.after, "u1", k.date) :
             r.daily_growth_followers # 0 /\ r.daily_growth_percent # 0

(***************************************************************************)
(* FilterSpec: filter_creator applied to an account and a caption.         *)
(***************************************************************************)
FilterNicknames == { "Amy", "Amy Clips", "Super Fan" }
FilterHandles == { "amy", "page.amy", "amyTTV" }
FilterBios == { "dancer", "My Twitch is amy", "Daily clips" }
FilterCaptions ==
    { NULL, "", "   ", "my dance", "This is my take", "Bro really said",
      "  She did it", "He really thought this was cool", "\tThey went home\n",
      "he", "Hello there", "They" }

\* The author objects and captions of search items.
FilterInputs ==
    { [ author |-> [ AuthorAmy EXCEPT !.nickname = n, !.unique_id = u,
                                      !.signature = b ],
        caption |-> c ] :
        << n, u, b, c >> \in
            FilterNicknames \X FilterHandles \X FilterBios \X FilterCaptions }

FilterInit ==
    /\ creators = {}
    /\ creator_stats = {}
    /\ daily_trends = {}
    /\ committed = EmptyTables
    /\ txAborted = FALSE
    /\ today = 1
    /\ pc = "idle"
    /\ runNo = 0
    /\ discovered_creators = {}
    /\ filter_stats = ZeroStats
    /\ trending_keywords = << >>
    /\ trendIdx = 0
    /\ page = 0
    /\ itemsLeft = 0
    /\ has_more = FALSE
    /\ roster = << >>
    /\ rosterIdx = 0
    /\ rollCall = [ updated_count |-> 0, failed_count |-> 0 ]
    /\ PoolIdle
    /\ \E input \in FilterInputs : hist = [ NoHistory EXCEPT !.filterInput = {input} ]

\* passed, reason = self.filter.filter_creator(author, caption, cover_url)
FilterCreator ==
    \E input \in hist.filterInput :
        /\ hist.filterCall = {}
        /\ hist' = [ hist EXCEPT !.filterCall =
                       { [ author |-> input.author,
                           caption |-> input.caption,
                           result |-> filter_creator(input.author, input.caption,
                                                     "cover") ] } ]
        /\ UNCHANGED << dbVars, today, poolVars, runVars >>

FilterNext == FilterCreator

FilterSpec == FilterInit /\ [][FilterNext]_vars

\* The keywords of the platform keyword set contained in a text, as indexes.
KeywordsIn(text) ==
    { i \in 1..Len(PLATFORM_KEYWORDS) : Contains(PLATFORM_KEYWORDS[i], text) }

\* C20: an account whose lower-cased display name, handle or bio contains a
\* keyword of the platform keyword set is rejected at Layer 1 whatever the
\* caption is, also a caption Layer 2 rejects; only Layer 1 has been evaluated;
\* and the reason names the keyword that comes first in list order among those
\* contained in the lower-cased "name handle bio" text.
C20_Layer1RejectsRegardlessOfCaption ==
    \A k \in hist.filterCall :
        LET fields == { lower(k.author.nickname), lower(k.author.unique_id),
                        lower(k.author.signature) }
            text == lower(k.author.nickname \o " " \o k.author.unique_id
                          \o " " \o k.author.signature)
        IN  (\E f \in fields : KeywordsIn(f) # {}) =>
                /\ ~k.result.passed
                /\ k.result.layer = 1
                /\ k.result.evaluated = << 1 >>
                /\ \E i \in KeywordsIn(text) :
                     /\ k.result.reason = PLATFORM_KEYWORDS[i]
                     /\ \A j \in KeywordsIn(text) : i <= j

\* An account whose bio says "My Twitch is amy" and whose handle ends in TTV,
\* with a caption Layer 2 would reject, has been rejected at Layer 1 for
\* "twitch", the earlier of the two keywords.
C20_Witness ==
    \E k \in hist.filterCall :
        /\ k.author.signature = "My Twitch is amy"
        /\ k.author.unique_id = "amyTTV"
        /\ ~layer2_pronoun_check(k.caption)[1]
        /\ ~k.result.passed
        /\ k.result.layer = 1
        /\ k.result.reason = "twitch"

\* The pronoun tokens a caption begins with, each followed by a space, once the
\* caption is trimmed and lower-cased; none for an empty or absent caption.
PronounsLeading(caption) ==
    IF caption = NULL \/ caption = "" THEN {}
    ELSE { i \in 1..Len(REPOST_PRONOUNS) :
             startswith(lower(strip(caption)), REPOST_PRONOUNS[i] \o " ") }

\* C21: for an account that passes Layer 1, a caption that begins (trimmed and
\* lower-cased) with a pronoun token followed by a space is rejected at Layer 2
\* with that pronoun as the reason; every other caption passes, in particular
\* an empty and an absent one; "He really thought this was cool" is rejected
\* and "This is my take" passes.
C21_CaptionDecidesLayer2 ==
    \A k \in hist.filterCall :
        LET text == lower(k.author.nickname \o " " \o k.author.unique_id
                          \o " " \o k.author.signature)
            leading == PronounsLeading(k.caption)
        IN  KeywordsIn(text) = {} =>
                /\ leading # {} =>
                       /\ ~k.result.passed
                       /\ k.result.layer = 2
                       /\ \E i \in leading : k.result.reason = REPOST_PRONOUNS[i]
                /\ leading = {} => (k.result.passed /\ k.result.layer = 0)
                /\ k.caption \in { NULL, "", "This is my take" } => k.result.passed
                /\ k.caption = "He really thought this was cool" =>
                       (~k.result.passed /\ k.result.layer = 2)

\* An account without platform keywords has been filtered with a caption that
\* begins with a tab and "They ": it was rejected at Layer 2 for "they".
C21_Witness ==
    \E k \in hist.filterCall :
        /\ k.caption = "\tThey went home\n"
        /\ k.result.evaluated = << 1, 2 >>
        /\ ~k.result.passed
        /\ k.result.layer = 2
        /\ k.result.reason = "they"

(***************************************************************************)
(* Claims about the checks of Discovery before storage (under Spec).       *)
(***************************************************************************)
\* C22: two items of one run that agree on display name, handle, bio and
\* caption get the same pass/reject outcome and the same layer from the
\* filtering step of Discovery, whatever their other fields are (such as the
\* cover image URL).
C22_SameInputsSameFilterOutcome ==
    \A a, b \in hist.filterOutcomes :
        ( /\ a.nickname = b.nickname
          /\ a.unique_id = b.unique_id
          /\ a.signature = b.signature
          /\ a.caption = b.caption ) => a.step = b.step

\* C23: every item whose creator Discovery wrote passed Layer 1 and Layer 2,
\* has a handle without a blacklisted substring and a non-empty user id, and its
\* search-result author has an integer follower count strictly between 10,000
\* and 100,000 with an integer play count strictly above 50,000; so an item
\* with 10,000 or 100,000 followers, 50,000 plays or a non-numeric count is
\* never among them.
C23_SavedItemsPassedEveryCheck ==
    \A item \in hist.storedItems :
        LET author == item.author
            text == lower(author.nickname \o " " \o author.unique_id
                          \o " " \o author.signature)
        IN  /\ KeywordsIn(text) = {}
            /\ PronounsLeading(item.desc) = {}
            /\ \A i \in 1..Len(username_blacklist) :
                 ~Contains(username_blacklist[i], lower(author.unique_id))
            /\ (author.sec_uid # "" \/ author.uid # "")
            /\ author.follower_count.k = "int"
            /\ author.follower_count.n > 10000
            /\ author.follower_count.n < 100000
            /\ item.statistics.play_count.k = "int"
            /\ item.statistics.play_count.n > 50000
            /\ item \notin { ItemBenMinFollowers, ItemBenMaxFollowers,
                             ItemBenNonNumeric, ItemBenFewViews }

\* Discovery has just saved a creator, in a run in which it also rejected an
\* item under the comet criteria.
C23_Witness ==
    /\ hist.storedItems # {}
    /\ hist.event = "saved"
    /\ filter_stats.rejected_comet_criteria > 0
    /\ filter_stats.saved_to_db > 0

\* C24: a run started without the trending-keyword API key ends at once, before
\* any phase: no database connection has been opened, no external API has been
\* called, and the tables and what is committed are what was committed before.
C24_NoApiKeyAbortsBeforeAnyPhase ==
    [][ hist'.event = "no_api_key" =>
            /\ pc' = "exited"
            /\ hist'.phases = << >>
            /\ ~hist'.connected
            /\ ~hist'.apiCalled
            /\ committed' = committed
            /\ creators' = committed.creators
            /\ creator_stats' = committed.creator_stats
            /\ daily_trends' = committed.daily_trends ]_vars

\* A run without the API key has ended at once while the store holds the rows
\* an earlier run committed.
C24_Witness ==
    /\ pc = "exited"
    /\ hist.event = "no_api_key"
    /\ runNo = 2
    /\ committed.creators # {}
    /\ Tables = committed

(***************************************************************************)
(* TrendSpec: Step 1 and Step 2 of run() alone (the selection of the       *)
(* trends and their storage), over several runs and days.                  *)
(***************************************************************************)
\* The lists get_trending_keywords may return.
ElevenTrends ==
    << "k01", "k02", "k03", "k04", "k05", "k06", "k07", "k08", "k09", "k10", "k11" >>
TrendRawLists ==
    { << >>, << "Bitcoin 2025" >>, << "Dance" >>,
      << "GG", "Dance", "dance!", "Dance Trend", "Run Club" >>, ElevenTrends }

\* What the provider may answer.
TrendAIResponses ==
    { AIFailure("error"), AIFailure("invalid_json"), AIFailure("not_list"),
      AIFailure("mixed_list") }
    \cup { AIList(l) : l \in { << >>, << "Dance" >>, << "Run Club", "Dance" >>,
                               << "Dance", "Dance" >> } }

\* after_blacklist of run() for each of these lists.
after_blacklist_of == [ raw \in TrendRawLists |-> AfterBlacklist(raw) ]

\* run() from get_trending_keywords to the conn.commit() after
\* insert_daily_trends_batch; the three early returns store nothing.
SelectAndStoreTrends ==
    \E raw_trending_keywords \in TrendRawLists, response \in TrendAIResponses,
       db_error \in BOOLEAN :
        LET after_blacklist == after_blacklist_of[raw_trending_keywords]
            all_participatory_trends == filter_trends_with_ai(after_blacklist, response)
            selected == TopTrends(all_participatory_trends)
            stored == selected # << >> /\ ~db_error
            batch == insert_daily_trends_batch(daily_trends,
                                               TrendsWithRanks(selected), today)
        IN  /\ hist.calls < MaxSelections
            /\ pc = "idle"
            /\ trending_keywords' = selected
            /\ daily_trends' = IF stored THEN batch ELSE daily_trends
            /\ committed' = [ committed EXCEPT !.daily_trends = daily_trends' ]
            /\ hist' = [ hist EXCEPT
                 !.calls = @ + 1,
                 !.selection =
                     { [ after_blacklist |-> after_blacklist,
                         response |-> response,
                         all_participatory_trends |-> all_participatory_trends,
                         selected |-> selected,
                         continued |-> all_participatory_trends # << >>,
                         stored |-> stored,
                         date |-> today,
                         before |-> daily_trends,
                         after |-> daily_trends' ] } ]
            /\ UNCHANGED << creators, creator_stats, txAborted, today, poolVars, pc, runNo,
                            discovered_creators, filter_stats, trendIdx, page,
                            itemsLeft, has_more, roster, rosterIdx, rollCall >>

TrendNext == SelectAndStoreTrends \/ NextDay

TrendSpec == Init /\ [][TrendNext]_vars

\* C25: for a non-empty keyword list, when the provider call raises, the answer
\* is not valid JSON or the parsed answer is not a list, filter_trends_with_ai
\* returns the input list itself (same elements, same order), and Discovery
\* goes on with it: its first ten keywords are the trends selected.
C25_FailedClassificationPassesThrough ==
    \A k \in hist.selection :
        ( /\ k.after_blacklist # << >>
          /\ k.response.kind \in { "error", "invalid_json", "not_list" } ) =>
            /\ k.all_participatory_trends = k.after_blacklist
            /\ k.continued
            /\ Len(k.selected) >= 1
            /\ \A i \in 1..Len(k.selected) : k.selected[i] = k.after_blacklist[i]

\* The provider call has failed on a list of five keywords: all five were
\* selected, in their order, and stored.
C25_Witness ==
    \E k \in hist.selection :
        /\ k.response.kind = "error"
        /\ Len(k.after_blacklist) = 5
        /\ k.selected = k.after_blacklist
        /\ k.stored

\* The rows of daily_trends for a keyword on a date.
TrendRows(trends, trend_keyword, discovered_at) ==
    { r \in trends : r.trend_keyword = trend_keyword /\ r.discovered_at = discovered_at }

\* C26: after any sequence of runs daily_trends holds at most one row per
\* (trend_keyword, date); a run selects at most 10 trends and inserts them with
\* the ranks 1..n of their positions; after it each selected keyword has, for
\* the day, the rank of its latest insertion (its position, when it is selected
\* once), a row that was there before has kept all but its rank, and the rows
\* of other keywords and days are as they were.
C26_TrendRowsUniqueRankLatest ==
    /\ \A r1, r2 \in daily_trends :
         ( r1.trend_keyword = r2.trend_keyword /\ r1.discovered_at = r2.discovered_at )
             => r1 = r2
    /\ \A k \in hist.selection :
         LET n == Len(k.selected)
             kws == { k.selected[i] : i \in 1..n }
         IN  /\ n <= 10
             /\ k.stored =>
                  /\ \A i \in 1..n :
                       \E r \in TrendRows(k.after, k.selected[i], k.date) :
                           /\ r.rank \in 1..n
                           /\ k.selected[r.rank] = k.selected[i]
                           /\ \A j \in 1..n : k.selected[j] = k.selected[i] => j <= r.rank
                  /\ \A r \in k.before :
                       IF r.trend_keyword \in kws /\ r.discovered_at = k.date
                       THEN TrendRows(k.after, r.trend_keyword, k.date) # {}
                       ELSE r \in k.after
                  /\ \A r \in k.after :
                       r \in k.before \/ (r.trend_keyword \in kws /\ r.discovered_at = k.date)

\* A keyword stored with rank 1 by an earlier run of the day has been selected
\* again in second position: its row now has rank 2.
C26_Witness ==
    \E k \in hist.selection :
        /\ k.stored
        /\ Len(k.selected) = 2
        /\ \E r \in TrendRows(k.before, k.selected[2], k.date) : r.rank = 1
        /\ \E r \in TrendRows(k.after, k.selected[2], k.date) : r.rank = 2

\* C27: the trends one run selects are normalized and deduplicated: no two
\* selected entries share a comparison key (the entry lower-cased, with every
\* character that is not a letter or a digit removed) or a core key (the
\* comparison key without a trailing "trend" or "challenge"), and no selected
\* entry has a comparison key shorter than 3 characters.
C27_SelectedTrendsNormalized ==
    \A k \in hist.selection :
        LET RECURSIVE Alnum(_)
            Alnum(t) ==
                IF Len(t) = 0 THEN ""
                ELSE (IF Contains(SubSeq(t, 1, 1), "abcdefghijklmnopqrstuvwxyz0123456789")
                      THEN SubSeq(t, 1, 1) ELSE "") \o Alnum(SubSeq(t, 2, Len(t)))
            ComparisonKey(t) == Alnum(lower(t))
            WithoutSuffix(key, suffix) ==
                IF Len(key) > Len(suffix)
                   /\ SubSeq(key, Len(key) - Len(suffix) + 1, Len(key)) = suffix
                THEN SubSeq(key, 1, Len(key) - Len(suffix)) ELSE key
            CoreKey(t) == WithoutSuffix(WithoutSuffix(ComparisonKey(t), "trend"),
                                        "challenge")
        IN  \A i \in 1..Len(k.selected) :
                /\ Len(ComparisonKey(k.selected[i])) >= 3
                /\ \A j \in 1..Len(k.selected) :
                     i # j => /\ ComparisonKey(k.selected[i]) # ComparisonKey(k.selected[j])
                              /\ CoreKey(k.selected[i]) # CoreKey(k.selected[j])

(***************************************************************************)
(* PoolSpec: Step 3 of run() with ENABLE_PARALLEL_PROCESSING on. Each       *)
(* selected trend is a task of a ThreadPoolExecutor with two threads; a     *)
(* task is process_trend_parallel. The threads run interleaved: one action  *)
(* is one stretch of a thread between two points where another thread can   *)
(* run and see or change what the stretch uses. The store is reduced to the *)
(* creator writes, each tagged with the thread and the task that made it.   *)
(***************************************************************************)
PoolTrends == { << "tA", "tB" >>, << "tA", "tB", "tC" >> }

\* An item as far as the pool model goes: its author and whether it passes the
\* filter, the comet criteria and the username blacklist.
PoolItems == [ user_id : Users, comet : BOOLEAN ]

\* psycopg2.connect: a new open connection, made by a thread (0: the main thread).
NewConnection(made_by) == [ open |-> TRUE, made_by |-> made_by, writes |-> {} ]

\* run() has connected, selected the trends and submitted one task per trend.
PoolInit ==
    /\ creators = {}
    /\ creator_stats = {}
    /\ daily_trends = {}
    /\ committed = EmptyTables
    /\ txAborted = FALSE
    /\ today = 1
    /\ pc = "parallel"
    /\ runNo = 1
    /\ discovered_creators = {}
    /\ filter_stats = ZeroStats
    /\ trending_keywords \in PoolTrends
    /\ trendIdx = 0
    /\ page = 0
    /\ itemsLeft = 0
    /\ has_more = FALSE
    /\ roster = << >>
    /\ rosterIdx = 0
    /\ rollCall = [ updated_count |-> 0, failed_count |-> 0 ]
    /\ db_manager_conn = 1
    /\ connections = << NewConnection(0) >>
    /\ pool_committed = {}
    /\ workers = [ w \in Workers |-> IdleWorker ]
    /\ futures = [ i \in 1..Len(trending_keywords) |->
                     [ keyword |-> trending_keywords[i], state |-> "queued", count |-> 0 ] ]
    /\ total_discovered = 0
    /\ semaphore = SemaphorePermits
    /\ downloads = [ c \in Callers |-> IdleCaller ]
    /\ processed_cache = {}
    /\ face_detection_cache = [ cover_url \in CoverUrls |-> "none" ]
    /\ hist = NoHistory

poolUnchanged ==
    UNCHANGED << dbVars, today, pc, runNo, trending_keywords, trendIdx, page, itemsLeft,
                 has_more, roster, rosterIdx, rollCall, semaphore, downloads,
                 processed_cache, face_detection_cache, hist >>

\* The task ends: process_trend_parallel returns (trend_keyword, count).
TaskDone(w, count) ==
    /\ futures' = [ futures EXCEPT ![workers[w].task] =
                      [ @ EXCEPT !.state = "done", !.count = count ] ]
    /\ workers' = [ workers EXCEPT ![w] = IdleWorker ]

\* A thread of the pool takes the next task of the queue.
worker_start(w) ==
    /\ workers[w].pc = "idle"
    /\ \E t \in 1..Len(futures) :
         /\ futures[t].state = "queued"
         /\ \A q \in 1..(t - 1) : futures[q].state # "queued"
         /\ futures' = [ futures EXCEPT ![t].state = "running" ]
         /\ workers' = [ workers EXCEPT ![w] = [ IdleWorker EXCEPT !.pc = "connect",
                                                                  !.task = t ] ]
    /\ UNCHANGED << db_manager_conn, connections, pool_committed, total_discovered,
                    discovered_creators, filter_stats >>
    /\ poolUnchanged

\* DatabaseManager.connect, up to the assignment self.conn = psycopg2.connect(...).
\* When psycopg2.connect raises, process_trend_parallel returns (trend, 0).
connect_assign(w) ==
    /\ workers[w].pc = "connect"
    /\ \E connect_ok \in BOOLEAN :
         IF connect_ok
         THEN /\ connections' = Append(connections, NewConnection(w))
              /\ db_manager_conn' = Len(connections) + 1
              /\ workers' = [ workers EXCEPT ![w].pc = "connect_return" ]
              /\ UNCHANGED futures
         ELSE /\ TaskDone(w, 0)
              /\ UNCHANGED << db_manager_conn, connections >>
    /\ UNCHANGED << pool_committed, total_discovered, discovered_creators, filter_stats >>
    /\ poolUnchanged

\* DatabaseManager.connect: `return self.conn`, a read of the shared attribute.
connect_result(w) == db_manager_conn

\* DatabaseManager.connect from its log call to its return, conn.cursor(), and
\* process_trend up to the first page of results.
connect_return(w) ==
    /\ workers[w].pc = "connect_return"
    /\ \E n \in 0..MaxPoolItems :
         workers' = [ workers EXCEPT ![w].pc = "process", ![w].conn = connect_result(w),
                                     ![w].left = n ]
    /\ UNCHANGED << db_manager_conn, connections, pool_committed, futures,
                    total_discovered, discovered_creators, filter_stats >>
    /\ poolUnchanged

\* process_video_item for the next item, from its first line to SAVEPOINT,
\* with the check `user_id in self.discovered_creators`. SAVEPOINT raises when
\* the connection has been closed: the item fails.
process_video_item_check(w) ==
    /\ workers[w].pc = "process"
    /\ workers[w].left > 0
    /\ \E item \in PoolItems :
         LET counted == [ filter_stats EXCEPT !.total_processed = @ + 1,
                                              !.passed_filters = @ + 1 ]
             next == [ workers EXCEPT ![w].left = @ - 1 ]
         IN  IF ~ item.comet
             THEN /\ filter_stats' = [ counted EXCEPT !.rejected_comet_criteria = @ + 1 ]
                  /\ workers' = next
             ELSE /\ filter_stats' = counted
                  /\ IF item.user_id \in discovered_creators
                        \/ ~ connections[workers[w].conn].open
                     THEN workers' = next
                     ELSE workers' = [ workers EXCEPT ![w].pc = "store",
                                                      ![w].user = item.user_id ]
    /\ UNCHANGED << db_manager_conn, connections, pool_committed, futures,
                    total_discovered, discovered_creators >>
    /\ poolUnchanged

\* Another connection holds an uncommitted write of the creator's row: the
\* upsert waits for that transaction to end.
RowLocked(c, user_id) ==
    \E d \in 1..Len(connections) :
        /\ d # c
        /\ connections[d].open
        /\ \E r \in connections[d].writes : r.user_id = user_id

\* process_video_item from upsert_creator to its return: the two upserts, the
\* profile fetch between them, RELEASE SAVEPOINT, discovered_creators.add and
\* saved_to_db. A database error rolls the item back to the savepoint; on a
\* closed connection that statement raises too. Either way the item fails.
process_video_item_store(w) ==
    /\ workers[w].pc = "store"
    /\ LET c == workers[w].conn
           user_id == workers[w].user
           next == [ workers EXCEPT ![w].pc = "process", ![w].user = "", ![w].left = @ - 1 ]
       IN  \/ /\ connections[c].open
              /\ ~ RowLocked(c, user_id)
              /\ connections' = [ connections EXCEPT ![c].writes = @ \cup
                                    { [ user_id |-> user_id, worker |-> w,
                                        task |-> workers[w].task ] } ]
              /\ discovered_creators' = discovered_creators \cup { user_id }
              /\ filter_stats' = [ filter_stats EXCEPT !.saved_to_db = @ + 1 ]
              /\ workers' = [ next EXCEPT ![w].discovered_count = @ + 1 ]
           \/ /\ workers' = next
              /\ UNCHANGED << connections, discovered_creators, filter_stats >>
    /\ UNCHANGED << db_manager_conn, pool_committed, futures, total_discovered >>
    /\ poolUnchanged

\* process_trend returns (no item is left, or the search gave no response);
\* conn.commit(), cursor.close(), conn.close(). On a closed connection commit
\* raises and process_trend_parallel returns (trend, 0).
commit_and_close(w) ==
    /\ workers[w].pc = "process"
    /\ LET c == workers[w].conn
       IN  IF connections[c].open
           THEN /\ pool_committed' = pool_committed \cup connections[c].writes
                /\ connections' = [ connections EXCEPT ![c].open = FALSE,
                                                       ![c].writes = {} ]
                /\ TaskDone(w, workers[w].discovered_count)
           ELSE /\ TaskDone(w, 0)
                /\ UNCHANGED << pool_committed, connections >>
    /\ UNCHANGED << db_manager_conn, total_discovered, discovered_creators, filter_stats >>
    /\ poolUnchanged

\* run(): one iteration of the loop over as_completed: total_discovered += count.
merge_result ==
    /\ pc = "parallel"
    /\ \E t \in 1..Len(futures) :
         /\ futures[t].state = "done"
         /\ futures' = [ futures EXCEPT ![t].state = "merged" ]
         /\ total_discovered' = total_discovered + futures[t].count
    /\ UNCHANGED << db_manager_conn, connections, pool_committed, workers,
                    discovered_creators, filter_stats >>
    /\ poolUnchanged

PoolNext ==
    \/ \E w \in Workers : worker_start(w)
    \/ \E w \in Workers : connect_assign(w)
    \/ \E w \in Workers : connect_return(w)
    \/ \E w \in Workers : process_video_item_check(w)
    \/ \E w \in Workers : process_video_item_store(w)
    \/ \E w \in Workers : commit_and_close(w)
    \/ merge_result

PoolSpec == PoolInit /\ [][PoolNext]_vars

(***************************************************************************)
(* Claims about the worker pool (under PoolSpec).                           *)
(***************************************************************************)
\* A thread is between connect's return and its task's commit.
UsesConnection(w) == workers[w].pc \in { "process", "store" }

\* The creator writes made, committed or not.
PoolWrites ==
    pool_committed \cup UNION { connections[c].writes : c \in 1..Len(connections) }

\* C28: under every interleaving the two threads of the pool hold pairwise
\* distinct connections while they process their trends; the connection a
\* thread works on is never closed by the other thread; and no write of a task
\* is committed before the task itself has come to its commit.
C28_WorkersOwnTheirConnections ==
    /\ \A w1, w2 \in Workers :
         (w1 # w2 /\ UsesConnection(w1) /\ UsesConnection(w2)) =>
             workers[w1].conn # workers[w2].conn
    /\ \A w \in Workers : UsesConnection(w) => connections[workers[w].conn].open
    /\ \A r \in pool_committed : futures[r.task].state \in { "done", "merged" }

\* C29: under every interleaving each creator is saved by at most one thread
\* of the pool in a run, and once every result is merged total_discovered and
\* saved_to_db both equal the number of distinct creators committed.
C29_EachCreatorSavedAndCountedOnce ==
    /\ \A r1, r2 \in PoolWrites : r1.user_id = r2.user_id => r1 = r2
    /\ (\A t \in 1..Len(futures) : futures[t].state = "merged") =>
         /\ total_discovered = Cardinality({ r.user_id : r \in pool_committed })
         /\ filter_stats.saved_to_db = Cardinality({ r.user_id : r \in pool_committed })

(***************************************************************************)
(* DownloadSpec: layer3_face_presence called from several threads, with    *)
(* face detection enabled. The download of the cover image happens inside  *)
(* `with self._image_download_semaphore:`; the semaphore is a class         *)
(* attribute, so every thread and every filter instance uses the same one. *)
(***************************************************************************)
max_retries == 2

\* How requests.get / raise_for_status can end: a response, Timeout or
\* ConnectionError (retried), any other exception (not retried).
DownloadResults == { "ok", "timeout", "http_error" }

\* A plausible bug: the permit is released at the end of the block only, and
\* an exception leaves the block before that.
semaphore_exit_on_success(permits, raised) ==
    IF raised THEN permits ELSE permits + 1

\* The exit of the `with` block: Semaphore.__exit__ releases the permit, with
\* or without an exception on its way out.
semaphore_exit(permits, raised) == permits + 1

\* layer3_face_presence up to the `with` statement, face detection enabled and
\* the cascade loaded: a cached result is returned without any download.
layer3_face_presence_enter(c) ==
    /\ downloads[c].pc = "idle"
    /\ downloads[c].calls < MaxDownloadCalls
    /\ \E cover_url \in CoverUrls :
         downloads' = [ downloads EXCEPT ![c] =
             IF face_detection_cache[cover_url] # "none"
             THEN [ @ EXCEPT !.calls = @ + 1, !.last = "no_download" ]
             ELSE [ @ EXCEPT !.calls = @ + 1, !.pc = "acquire",
                             !.cover_url = cover_url,
                             !.waited = @ \/ semaphore = 0 ] ]
    /\ UNCHANGED << dbVars, today, runVars, db_manager_conn, connections, pool_committed,
                    workers, futures, total_discovered, semaphore, processed_cache,
                    face_detection_cache, hist >>

\* Semaphore.__enter__: acquire() takes a permit, and blocks while there is
\* none; then time.sleep(0.2), max_retries = 2, retry_delay = 0.5 (delays in
\* tenths of a second).
semaphore_acquire(c) ==
    /\ downloads[c].pc = "acquire"
    /\ semaphore > 0
    /\ semaphore' = semaphore - 1
    /\ downloads' = [ downloads EXCEPT ![c].pc = "download", ![c].attempt = 0,
                                       ![c].retry_delay = 5, ![c].slept = << 2 >> ]
    /\ UNCHANGED << dbVars, today, runVars, db_manager_conn, connections, pool_committed,
                    workers, futures, total_discovered, processed_cache,
                    face_detection_cache, hist >>

\* One iteration of the retry loop, and what follows it when the loop ends:
\* the block is left (by break or by an exception), the image is analysed or
\* the exception handled, the result is cached and returned (the locals of the
\* call are gone). gets counts the requests.get calls of this call that ended,
\* results holds how they ended.
download_attempt(c) ==
    /\ downloads[c].pc = "download"
    /\ \E result \in DownloadResults :
         IF result = "timeout" /\ downloads[c].attempt < max_retries - 1
         THEN /\ downloads' = [ downloads EXCEPT
                                  ![c].attempt = @ + 1, ![c].gets = @ + 1,
                                  ![c].results = Append(@, result),
                                  ![c].slept = Append(@, downloads[c].retry_delay),
                                  ![c].retry_delay = @ * 2 ]
              /\ UNCHANGED << semaphore, face_detection_cache >>
         ELSE /\ semaphore' = semaphore_exit(semaphore, result # "ok")
              /\ face_detection_cache' =
                   [ face_detection_cache EXCEPT ![downloads[c].cover_url] =
                       IF result = "ok" THEN "analysed" ELSE "download_failed" ]
              /\ downloads' = [ downloads EXCEPT ![c].pc = "idle", ![c].attempt = 0,
                                  ![c].cover_url = "", ![c].retry_delay = 0,
                                  ![c].gets = 0, ![c].slept = << >>,
                                  ![c].results = << >>,
                                  ![c].last = CASE result = "ok" -> "downloaded"
                                                [] result = "timeout" -> "retries_exhausted"
                                                [] OTHER -> "exception" ]
    /\ UNCHANGED << dbVars, today, runVars, db_manager_conn, connections, pool_committed,
                    workers, futures, total_discovered, processed_cache, hist >>

DownloadNext ==
    \/ \E c \in Callers : layer3_face_presence_enter(c)
    \/ \E c \in Callers : semaphore_acquire(c)
    \/ \E c \in Callers : download_attempt(c)

\* Every thread that can take a step eventually takes one: acquire() returns
\* once a permit stays free, and requests.get ends (timeout=15).
DownloadSpec ==
    /\ Init
    /\ [][DownloadNext]_vars
    /\ \A c \in Callers : WF_vars(semaphore_acquire(c)) /\ WF_vars(download_attempt(c))

\* The threads inside the `with` block.
InProgress == { c \in Callers : downloads[c].pc = "download" }

\* C30: at any time at most 2 downloads are in progress over all threads, the
\* free permits and the downloads in progress add up to 2 (so both permits are
\* free when no download is in progress: every exit of a download has given
\* its permit back), and a thread waiting for a permit eventually gets one.
C30_DownloadsLimitedPermitsReturned ==
    /\ [](/\ Cardinality(InProgress) <= 2
          /\ semaphore + Cardinality(InProgress) = SemaphorePermits)
    /\ \A c \in Callers :
         (downloads[c].pc = "acquire") ~> (downloads[c].pc = "download")

\* Downloads have ended in each way (a response, retries exhausted, another
\* exception), a thread found no permit free when it arrived, and now that no
\* download is in progress both permits are free.
C30_Witness ==
    /\ InProgress = {}
    /\ semaphore = SemaphorePermits
    /\ \E c \in Callers : downloads[c].waited
    /\ \A l \in { "downloaded", "retries_exhausted", "exception" } :
         \E c \in Callers : downloads[c].last = l

(***************************************************************************)
(* Claims about the calls of the external APIs in a run (under Spec).       *)
(***************************************************************************)
\* C31: within a run, between any two consecutive calls of the same external
\* API (search_videos, fetch_user_profile) the engine sleeps: no API is called
\* twice with no time.sleep between the two calls.
C31_DelayBetweenCallsOfOneApi ==
    hist.apiLog.back_to_back = {}

(***************************************************************************)
(* AvatarSpec: avatar_cache.py. cache_avatar and cache_avatars_batch are    *)
(* called in one process, so the module-level set _processed_cache lives    *)
(* across the calls. What the storage client, the CDN and the upload do is  *)
(* an input of each call: the first step that fails, or none.               *)
(***************************************************************************)
SUPABASE_URL == "https://aoirpacvupeglqpdanmo.supabase.co"
BUCKET_NAME == "avatars"

TikTokAvatarUrl == "https://p16.tiktokcdn.com/a.jpg"
StoredAvatarUrl ==
    "https://aoirpacvupeglqpdanmo.supabase.co/storage/v1/object/public/avatars/u1_0.jpg"
AvatarUrls == { "", TikTokAvatarUrl, StoredAvatarUrl }

\* The step of cache_avatar that fails: get_supabase_client returns None,
\* ensure_bucket_exists returns False, download_avatar returns None (request
\* error, not an image) or empty content, upload_avatar returns None.
AvatarFailures ==
    { "none", "no_client", "bucket", "download_error", "not_image", "empty_image",
      "upload" }

\* hashlib.md5(original_url.encode()).hexdigest()[:8]
url_hash(original_url) ==
    CASE original_url = TikTokAvatarUrl -> "729fbb17"
      [] original_url = StoredAvatarUrl -> "3352e0b5"
      [] original_url = "" -> "d41d8cd9"

get_avatar_filename(user_id, original_url) ==
    user_id \o "_" \o url_hash(original_url) \o ".jpg"

\* upload_avatar when the upload succeeds: the public URL of the stored file.
upload_avatar(user_id, original_url) ==
    SUPABASE_URL \o "/storage/v1/object/public/" \o BUCKET_NAME \o "/"
        \o get_avatar_filename(user_id, original_url)

\* 'supabase' in url
is_supabase_url == [ url \in AvatarUrls |-> Contains("supabase", url) ]

\* A plausible bug: a failed download gives no URL at all.
cache_avatar_empty_on_download_failure(user_id, tiktok_avatar_url, processed, failure) ==
    LET cache_key == user_id \o ":" \o tiktok_avatar_url
        added == processed \cup { cache_key }
    IN  IF tiktok_avatar_url = ""
        THEN [ result |-> "", processed |-> processed, uploaded |-> FALSE ]
        ELSE IF cache_key \in processed
        THEN [ result |-> tiktok_avatar_url, processed |-> processed, uploaded |-> FALSE ]
        ELSE IF is_supabase_url[tiktok_avatar_url] \/ failure \in { "no_client", "bucket", "upload" }
        THEN [ result |-> tiktok_avatar_url, processed |-> added, uploaded |-> FALSE ]
        ELSE IF failure # "none"
        THEN [ result |-> "", processed |-> added, uploaded |-> FALSE ]
        ELSE [ result |-> upload_avatar(user_id, tiktok_avatar_url), processed |-> added,
               uploaded |-> TRUE ]

\* cache_avatar: the URL returned, _processed_cache after the call, and whether
\* the image was uploaded.
cache_avatar(user_id, tiktok_avatar_url, processed, failure) ==
    LET cache_key == user_id \o ":" \o tiktok_avatar_url
        added == processed \cup { cache_key }
    IN  IF tiktok_avatar_url = ""
        THEN [ result |-> "", processed |-> processed, uploaded |-> FALSE ]
        ELSE IF cache_key \in processed
        THEN [ result |-> tiktok_avatar_url, processed |-> processed, uploaded |-> FALSE ]
        ELSE IF is_supabase_url[tiktok_avatar_url] \/ failure # "none"
        THEN [ result |-> tiktok_avatar_url, processed |-> added, uploaded |-> FALSE ]
        ELSE [ result |-> upload_avatar(user_id, tiktok_avatar_url), processed |-> added,
               uploaded |-> TRUE ]

RECURSIVE cache_avatars_loop(_, _, _, _, _)
\* The loop of cache_avatars_batch from creator i on: the list, _processed_cache
\* and the cache_avatar calls made (arguments, result, uploaded) so far.
cache_avatars_loop(creator_list, i, processed, failures, calls) ==
    IF i > Len(creator_list)
    THEN [ creators |-> creator_list, processed |-> processed, calls |-> calls ]
    ELSE LET user_id == creator_list[i].user_id
             original_url == creator_list[i].avatar_url
             cached == cache_avatar(user_id, original_url, processed, failures[i])
         IN  IF original_url = "" \/ is_supabase_url[original_url]
             THEN cache_avatars_loop(creator_list, i + 1, processed, failures, calls)
             ELSE cache_avatars_loop(
                      IF cached.result # original_url
                      THEN [ creator_list EXCEPT ![i].avatar_url = cached.result ]
                      ELSE creator_list,
                      i + 1, cached.processed, failures,
                      calls \cup { [ index |-> i, user_id |-> user_id, url |-> original_url,
                                     result |-> cached.result,
                                     uploaded |-> cached.uploaded ] })

\* cache_avatars_batch: without a client or a bucket the list comes back as it is.
cache_avatars_batch(creator_list, processed, batch_failure, failures) ==
    IF batch_failure \in { "no_client", "bucket" }
    THEN [ creators |-> creator_list, processed |-> processed, calls |-> {} ]
    ELSE cache_avatars_loop(creator_list, 1, processed, failures, {})

\* The lists of creators given to cache_avatars_batch.
AvatarCreators == [ user_id : Users, avatar_url : AvatarUrls ]
AvatarBatches ==
    UNION { [ 1..n -> AvatarCreators ] : n \in 0..MaxBatch }

\* One call of cache_avatar (as backfill_avatars makes for each row).
CacheAvatar ==
    /\ hist.calls < MaxAvatarCalls
    /\ \E user_id \in Users, url \in AvatarUrls, failure \in AvatarFailures :
         LET cached == cache_avatar(user_id, url, processed_cache, failure)
         IN  /\ processed_cache' = cached.processed
             /\ hist' = [ hist EXCEPT
                   !.calls = @ + 1,
                   !.avatarCall = { [ user_id |-> user_id, url |-> url,
                                      failure |-> failure, before |-> processed_cache,
                                      result |-> cached.result,
                                      uploaded |-> cached.uploaded ] },
                   !.avatarResults = @ \cup { [ user_id |-> user_id, url |-> url,
                                                result |-> cached.result ] } ]
    /\ UNCHANGED << dbVars, today, runVars, db_manager_conn, connections, pool_committed,
                    workers, futures, total_discovered, semaphore, downloads,
                    face_detection_cache >>

\* One call of cache_avatars_batch.
CacheAvatarsBatch ==
    /\ hist.calls < MaxAvatarCalls
    /\ \E creator_list \in AvatarBatches, batch_failure \in { "none", "no_client", "bucket" } :
       \E failures \in [ 1..Len(creator_list) -> AvatarFailures ] :
         LET batch == cache_avatars_batch(creator_list, processed_cache, batch_failure, failures)
         IN  /\ processed_cache' = batch.processed
             /\ hist' = [ hist EXCEPT
                   !.calls = @ + 1,
                   !.avatarBatch = { [ creators |-> creator_list, returned |-> batch.creators,
                                       calls |-> batch.calls ] },
                   !.avatarResults = @ \cup { [ user_id |-> k.user_id, url |-> k.url,
                                                result |-> k.result ] : k \in batch.calls } ]
    /\ UNCHANGED << dbVars, today, runVars, db_manager_conn, connections, pool_committed,
                    workers, futures, total_discovered, semaphore, downloads,
                    face_detection_cache >>

AvatarNext == CacheAvatar \/ CacheAvatarsBatch

AvatarSpec == Init /\ [][AvatarNext]_vars

\* C32: cache_avatar, for a URL that is not empty, returns the original URL or
\* the permanent storage URL of that avatar; whenever a step of it fails it
\* returns the original URL; it returns the permanent URL only after a
\* successful upload. cache_avatars_batch returns the same creators in the
\* same order and changes a creator's avatar_url only to the URL a cache_avatar
\* call for that creator returned after a successful upload.
C32_CacheAvatarFallsBack ==
    /\ \A k \in hist.avatarCall :
         k.url # "" =>
             /\ k.result \in { k.url, upload_avatar(k.user_id, k.url) }
             /\ k.failure # "none" => k.result = k.url
             /\ k.result # k.url => k.uploaded
    /\ \A b \in hist.avatarBatch :
         /\ Len(b.returned) = Len(b.creators)
         /\ \A i \in 1..Len(b.creators) :
              /\ b.returned[i].user_id = b.creators[i].user_id
              /\ \/ b.returned[i].avatar_url = b.creators[i].avatar_url
                 \/ \E k \in b.calls :
                      /\ k.index = i
                      /\ k.uploaded
                      /\ k.result = b.returned[i].avatar_url

\* A cache_avatar call has failed at the upload and returned the original URL,
\* and a batch of two creators came back with one avatar cached and the other,
\* whose download failed, as it was.
C32_Witness ==
    /\ \E k \in hist.avatarCall :
         k.failure = "upload" /\ k.url = TikTokAvatarUrl /\ k.result = k.url
           /\ k.user_id \o ":" \o k.url \notin k.before
    /\ \E b \in hist.avatarBatch :
         /\ Len(b.creators) = 2
         /\ b.returned[1].avatar_url # b.creators[1].avatar_url
         /\ b.returned[2].avatar_url = TikTokAvatarUrl
         /\ \E k \in b.calls : k.index = 2 /\ ~k.uploaded

\* C39: within one process, two cache_avatar calls with the same user id and
\* URL return the same URL, and cache_avatars_batch gives two records with the
\* same user id and URL the same avatar_url.
C39_CacheAvatarStableUnderRepetition ==
    /\ \A r1, r2 \in hist.avatarResults :
         (r1.user_id = r2.user_id /\ r1.url = r2.url) => r1.result = r2.result
    /\ \A b \in hist.avatarBatch :
         \A i, j \in 1..Len(b.creators) :
             b.creators[i] = b.creators[j] => b.returned[i] = b.returned[j]

(***************************************************************************)
(* Claims about what Discovery leaves in the store (under Spec).            *)
(***************************************************************************)
\* C33: a process_video_item step that changes the tables at all has written
\* both the creator row and today's snapshot of that item's creator; whatever
\* fails after the savepoint, the step leaves the tables as they were.
C33_CreatorAndSnapshotTogether ==
    [][ (pc = "items" /\ (creators' # creators \/ creator_stats' # creator_stats)) =>
            /\ hist'.event = "saved"
            /\ CreatorRows(creators', hist'.user) # {}
            /\ StatsRows(creator_stats', hist'.user, today) # {} ]_vars

\* C34: when Roll Call begins, every user id in discovered_creators has a
\* committed creators row and a committed snapshot dated today.
C34_DiscoveredSetWithinStore ==
    pc = "roll_call" =>
        \A user_id \in discovered_creators :
            /\ CreatorRows(committed.creators, user_id) # {}
            /\ StatsRows(committed.creator_stats, user_id, hist.day) # {}

\* C35: at every point of a run the per-layer rejection counters and the
\* passed counter together do not exceed the processed counter (an item is
\* counted under at most one of them), and the comet rejections and the saved
\* items together do not exceed the passed counter.
C35_CountersPartitionTheItems ==
    /\ filter_stats.rejected_layer1 + filter_stats.rejected_layer2
         + filter_stats.rejected_layer3 + filter_stats.passed_filters
           <= filter_stats.total_processed
    /\ filter_stats.rejected_comet_criteria + filter_stats.saved_to_db
           <= filter_stats.passed_filters

(***************************************************************************)
(* PagingSpec: one call of process_trend. The search API may offer pages    *)
(* without end; what process_video_item does with an item is reduced to its *)
(* return value (True when the creator was saved).                          *)
(***************************************************************************)
\* A plausible bug: the loop goes on as long as the API reports more pages.
next_page_wanted_unbounded(page_no, more) == more

\* `for page in range(max_pages)` with `if not has_more: break`: after the page
\* numbered page_no (from 0) another iteration follows.
next_page_wanted(page_no, more) == more /\ page_no + 1 < max_pages

\* process_trend is called.
PagingStart ==
    /\ pc = "idle"
    /\ hist.paging = NoPaging
    /\ pc' = "paging_search"
    /\ page' = 0
    /\ itemsLeft' = 0
    /\ has_more' = FALSE
    /\ hist' = [ hist EXCEPT !.event = "process_trend" ]
    /\ UNCHANGED << dbVars, today, poolVars, runNo, discovered_creators, filter_stats,
                    trending_keywords, trendIdx, roster, rosterIdx, rollCall >>

\* One search_videos call and the lines up to the loop over the items: no
\* response or no items ends the loop, a data value that is not a dict raises.
PagingSearch ==
    /\ pc = "paging_search"
    /\ hist.paging.calls < MaxSearchCalls
    /\ \/ \E kind \in { "no_response", "no_items", "raised" } :
            /\ pc' = IF kind = "raised" THEN "paging_raised" ELSE "paging_returned"
            /\ hist' = [ hist EXCEPT !.event = kind, !.paging.calls = @ + 1,
                           !.paging.returned = IF kind = "raised" THEN {}
                                               ELSE { hist.paging.discovered_count } ]
            /\ UNCHANGED << itemsLeft, has_more >>
       \/ \E n \in 1..MaxPageItems, more \in BOOLEAN :
            /\ pc' = "paging_items"
            /\ itemsLeft' = n
            /\ has_more' = more
            /\ hist' = [ hist EXCEPT !.event = "page_fetched", !.paging.calls = @ + 1,
                                     !.paging.fetched = @ + n ]
    /\ UNCHANGED << dbVars, today, poolVars, runNo, discovered_creators, filter_stats,
                    trending_keywords, trendIdx, page, roster, rosterIdx, rollCall >>

\* One iteration of the loop over search_item_list; after the last item of the
\* page, the has_more check, the next iteration of the page loop or the return.
PagingItem ==
    /\ pc = "paging_items"
    /\ itemsLeft > 0
    /\ \E saved \in BOOLEAN :
         LET count == hist.paging.discovered_count + (IF saved THEN 1 ELSE 0)
             last == itemsLeft = 1
             again == next_page_wanted(page, has_more)
         IN  /\ itemsLeft' = itemsLeft - 1
             /\ pc' = IF ~last THEN "paging_items"
                      ELSE IF again THEN "paging_search" ELSE "paging_returned"
             /\ page' = IF last /\ again THEN page + 1 ELSE page
             /\ hist' = [ hist EXCEPT
                   !.event = IF saved THEN "saved" ELSE "not_saved",
                   !.paging.discovered_count = count,
                   !.paging.processed = @ + 1,
                   !.paging.saved = @ + (IF saved THEN 1 ELSE 0),
                   !.paging.returned = IF last /\ ~again THEN { count } ELSE {} ]
    /\ UNCHANGED << dbVars, today, poolVars, runNo, discovered_creators, filter_stats,
                    trending_keywords, trendIdx, has_more, roster, rosterIdx, rollCall >>

PagingNext == PagingStart \/ PagingSearch \/ PagingItem

\* The thread that runs process_trend keeps running: every call it waits for
\* ends (the requests have timeouts).
PagingSpec == Init /\ [][PagingNext]_vars /\ WF_vars(PagingNext)

ScriptTrendKeywords == { "tA", "TA" }

\* A variant connection in autocommit mode: each statement is durable at once.
durable_after_statement_autocommit(view, durable) == view

\* conn = psycopg2.connect(DATABASE_URL), autocommit left off: what the other
\* connections see after a statement of the script is what was committed before.
durable_after_statement(view, durable) == durable

\* DELETE FROM creator_stats WHERE recorded_date < %s
delete_old_stats(stats, cutoff) == { r \in stats : ~(r.recorded_date < cutoff) }

\* DELETE FROM daily_trends WHERE DATE(discovered_at) < %s
delete_old_trends(trends, cutoff) == { r \in trends : ~(r.discovered_at < cutoff) }

\* DELETE FROM creators WHERE user_id NOT IN (SELECT DISTINCT user_id FROM creator_stats)
delete_orphaned_creators(crs, stats) ==
    { c \in crs : ~(c.user_id \notin { r.user_id : r \in stats }) }

\* active_trends = [row[0].lower() for row in cursor.fetchall()]
active_trends(trends) == { lower(r.trend_keyword) : r \in trends }

\* DELETE FROM creator_stats WHERE LOWER(source_trend) NOT IN %s; the condition
\* is NULL, and the row stays, for a snapshot without source_trend.
delete_stale_stats(stats, active) ==
    { r \in stats : ~(r.source_trend # NULL /\ lower(r.source_trend) \notin active) }

\* A trend keyword is stored and committed by a run of the engine.
StoreDailyTrend ==
    /\ pc = "idle"
    /\ hist.calls < MaxStoreCalls
    /\ \E trend_keyword \in ScriptTrendKeywords :
         daily_trends' = insert_daily_trend(daily_trends, trend_keyword, 1, today)
    /\ committed' = [ committed EXCEPT !.daily_trends = daily_trends' ]
    /\ hist' = [ hist EXCEPT !.calls = @ + 1 ]
    /\ UNCHANGED << creators, creator_stats, txAborted, today, poolVars, runVars >>

ScriptUnchanged ==
    UNCHANGED << txAborted, today, poolVars, runNo, discovered_creators, filter_stats,
                 trending_keywords, trendIdx, page, itemsLeft, has_more, roster,
                 rosterIdx, rollCall >>

\* clean_old_data.py connects and executes its first DELETE.
clean_old_data_stats ==
    /\ pc = "idle"
    /\ \E cutoff \in 1..today :
         /\ creator_stats' = delete_old_stats(creator_stats, cutoff)
         /\ hist' = [ hist EXCEPT !.event = "statement",
                        !.scriptRun = { [ name |-> "clean_old_data", cutoff |-> cutoff,
                                          before |-> committed ] } ]
    /\ committed' = durable_after_statement(
                        [ Tables EXCEPT !.creator_stats = creator_stats' ], committed)
    /\ pc' = "old_stats_deleted"
    /\ UNCHANGED << creators, daily_trends >>
    /\ ScriptUnchanged

\* Its second DELETE.
clean_old_data_trends ==
    /\ pc = "old_stats_deleted"
    /\ \E k \in hist.scriptRun :
         daily_trends' = delete_old_trends(daily_trends, k.cutoff)
    /\ committed' = durable_after_statement(
                        [ Tables EXCEPT !.daily_trends = daily_trends' ], committed)
    /\ pc' = "old_trends_deleted"
    /\ hist' = [ hist EXCEPT !.event = "statement" ]
    /\ UNCHANGED << creators, creator_stats >>
    /\ ScriptUnchanged

\* Its third DELETE.
clean_old_data_creators ==
    /\ pc = "old_trends_deleted"
    /\ creators' = delete_orphaned_creators(creators, creator_stats)
    /\ committed' = durable_after_statement(
                        [ Tables EXCEPT !.creators = creators' ], committed)
    /\ pc' = "creators_deleted"
    /\ hist' = [ hist EXCEPT !.event = "statement" ]
    /\ UNCHANGED << creator_stats, daily_trends >>
    /\ ScriptUnchanged

\* clean_stale_trends.py connects, reads the active trends and executes its
\* first DELETE. Without any stored trend the tuple of active trends is empty,
\* `NOT IN ()` is a syntax error, and the script ends at its first query with
\* nothing changed.
clean_stale_trends_stats ==
    /\ pc = "idle"
    /\ IF active_trends(daily_trends) = {}
       THEN /\ hist' = [ hist EXCEPT !.event = "script_raised", !.scriptRun = {} ]
            /\ UNCHANGED << pc, creator_stats, committed >>
       ELSE /\ creator_stats' = delete_stale_stats(creator_stats,
                                                   active_trends(daily_trends))
            /\ committed' = durable_after_statement(
                        [ Tables EXCEPT !.creator_stats = creator_stats' ], committed)
            /\ pc' = "stale_stats_deleted"
            /\ hist' = [ hist EXCEPT !.event = "statement",
                           !.scriptRun = { [ name |-> "clean_stale_trends", cutoff |-> 0,
                                             before |-> committed ] } ]
    /\ UNCHANGED << creators, daily_trends >>
    /\ ScriptUnchanged

\* Its second DELETE.
clean_stale_trends_creators ==
    /\ pc = "stale_stats_deleted"
    /\ creators' = delete_orphaned_creators(creators, creator_stats)
    /\ committed' = durable_after_statement(
                        [ Tables EXCEPT !.creators = creators' ], committed)
    /\ pc' = "creators_deleted"
    /\ hist' = [ hist EXCEPT !.event = "statement" ]
    /\ UNCHANGED << creator_stats, daily_trends >>
    /\ ScriptUnchanged

\* conn.commit() of either script.
script_commit ==
    /\ pc = "creators_deleted"
    /\ committed' = Tables
    /\ pc' = "idle"
    /\ hist' = [ hist EXCEPT !.event = "script_committed", !.scriptRun = {},
                   !.scriptDone = { [ name |-> k.name, before |-> k.before,
                                      after |-> Tables ] : k \in hist.scriptRun } ]
    /\ UNCHANGED << creators, creator_stats, daily_trends >>
    /\ ScriptUnchanged

ScriptNext ==
    \/ pc = "idle" /\ StoreNext
    \/ StoreDailyTrend
    \/ clean_old_data_stats
    \/ clean_old_data_trends
    \/ clean_old_data_creators
    \/ clean_stale_trends_stats
    \/ clean_stale_trends_creators
    \/ script_commit

ScriptSpec == Init /\ [][ScriptNext]_vars

\* C37: after clean_old_data or clean_stale_trends has committed, every
\* snapshot left belongs to a creator that exists and every creator left has a
\* snapshot; a script deletes creators only after its snapshot delete; and the
\* other connections see nothing of a script before its commit, which shows
\* them both deletions at once.
C37_CleanupKeepsOwnership ==
    /\ [](\A k \in hist.scriptDone :
            /\ \A r \in k.after.creator_stats :
                  \E c \in k.after.creators : c.user_id = r.user_id
            /\ \A c \in k.after.creators :
                  \E r \in k.after.creator_stats : r.user_id = c.user_id)
    /\ [][ (hist.scriptRun # {} \/ hist'.scriptRun # {}) =>
             /\ (creators' # creators =>
                   pc \in { "old_trends_deleted", "stale_stats_deleted" })
             /\ (committed' # committed =>
                   /\ hist'.event = "script_committed"
                   /\ committed' = [ creators |-> creators,
                                     creator_stats |-> creator_stats,
                                     daily_trends |-> daily_trends ]) ]_vars

\* clean_stale_trends has committed: the snapshot of one creator named a trend
\* that is stored in other letter case and stayed with its creator, the
\* snapshot of another creator named a trend not stored and went with its
\* creator.
C37_Witness ==
    \E k \in hist.scriptDone :
        /\ k.name = "clean_stale_trends"
        /\ \E r \in k.after.creator_stats :
              /\ r.source_trend \notin { t.trend_keyword : t \in k.before.daily_trends }
              /\ \E c \in k.after.creators : c.user_id = r.user_id
        /\ \E c \in k.before.creators \ k.after.creators :
              \E r \in k.before.creator_stats \ k.after.creator_stats :
                  r.user_id = c.user_id

(***************************************************************************)
(* The retries of the cover download (under DownloadSpec).                  *)
(***************************************************************************)
\* C38: one layer3_face_presence call makes at most 2 download attempts; a
\* second attempt follows only a timeout or connection error of the first,
\* after a sleep of the retry delay, which then doubles; when the last attempt
\* fails the call ends with the rejection recorded in the cache; and no
\* download attempt is made for a URL whose result the cache already holds.
C38_BoundedRetriesThenCached ==
    /\ [](\A c \in Callers :
            /\ downloads[c].gets + (IF downloads[c].pc = "download" THEN 1 ELSE 0) <= 2
            /\ (downloads[c].pc = "download" /\ downloads[c].gets = 1) =>
                  /\ downloads[c].results = << "timeout" >>
                  /\ downloads[c].slept = << 2, 5 >>
                  /\ downloads[c].retry_delay = 10)
    /\ [][ \A c \in Callers :
             (downloads[c].pc = "download" /\ downloads'[c] # downloads[c]) =>
               /\ (downloads'[c].pc = "idle"
                     /\ downloads'[c].last \in { "retries_exhausted", "exception" }) =>
                     face_detection_cache'[downloads[c].cover_url] = "download_failed"
               /\ face_detection_cache[downloads[c].cover_url] = "none" ]_vars

====
